---- MODULE Spec2Model ----
(***************************************************************************)
(* Model of the ollama-model-downloader.                                   *)
(*                                                                         *)
(*  Spec      the task-queue download manager of main.go (Enqueue,         *)
(*            runQueue, performAction) driving the pull engine run() of    *)
(*            download.go, one pull at a time.                             *)
(*  SpecBlob  downloadBlob of download.go on one blobs directory and one   *)
(*            digest, called again and again with any declared size and    *)
(*            any registry answer.                                         *)
(*  SpecZip   zipDir of download.go writing the archive of a models/ tree  *)
(*            to the output path, with handleZip serving that path.        *)
(*  SpecPulls repeated pulls of one reference, reduced to one blob, on one *)
(*            staging directory, with or without keepStaging.              *)
(*  SpecFetch the blob stage of run(): dedupeBlobs, the goroutines behind  *)
(*            the sem channel, the wait loop, packaging and removal.       *)
(*  SpecSession session.json of one staging directory under the queue      *)
(*            manager of main.go and under the single-session web server   *)
(*            (beginDownloadSession, /pause, /cancel, /resume).            *)
(*  SpecRetry httpReqWithRetry of download.go on one request: attempts,    *)
(*            retryable statuses and errors, backoff and cancellation.     *)
(*  SpecResolve the manifest stage of run(): getManifestOrIndex, the       *)
(*            platform selection in an index, the stored manifest's name.  *)
(*  SpecProgress the progress tracker of download.go under concurrent Add  *)
(*            and SetDone.                                                 *)
(*  SpecSanitize SanitizeModelName on any short name.                      *)
(*  SpecGeneric the generic DownloadManager of download_manager.go under   *)
(*            its methods, processQueue and the downloadWorker goroutines. *)
(*  SpecShutdown the generic DownloadManager until and after Shutdown.     *)
(*  SpecFailing the generic DownloadManager left to itself, every attempt  *)
(*            of every download failing.                                   *)
(*  SpecAccount the progress calls of run() and downloadBlob on one blob.  *)
(*  SpecFetched the progress calls of a parallel fetch of several blobs,   *)
(*            file contents reduced to their lengths.                      *)
(*  SpecHonest repeated attempts at one blob against a registry that       *)
(*            serves the blob and honours Range.                           *)
(*  SpecStaging the goroutines executing run() by staging directory, under *)
(*            the web server's handlers and under the queue manager.       *)
(*  SpecIndexPage DiscoverPartialSessions and CategorizeSessions on any    *)
(*            output directory.                                            *)
(*  SpecPlatform archFromGo and the default platform on any short name.    *)
(***************************************************************************)
EXTENDS Integers, Sequences, FiniteSets, Bags, TLC

VARIABLES
    tasks,        \* downloadManager.tasks: sequence of downloadTask records
    wpc,          \* position of the runQueue goroutine
    wtask,        \* runQueue's local `task` (index into tasks, 0 = none)
    ctx,          \* the context of the pull: "none", "live" or "canceled"
    phase,        \* position of run() inside the pull in progress
    pullErr,      \* value returned by downloadModel
    staging,      \* per task: <sanitized>-<id>.staging exists on disk
    reply,        \* the ok performAction returned, when the last step was one
    lastFinish,   \* what runQueue's bookkeeping did, when the last step was it
    part,         \* blobs/sha256-<hex>.part : Absent or its content
    final,        \* blobs/sha256-<hex>      : Absent or its content
    bpc,          \* position inside downloadBlob
    expectedSize, \* downloadBlob's expectedSize argument
    start,        \* downloadBlob's start offset
    offset,       \* write offset of the open .part file
    hasher,       \* bytes fed to the sha256 hasher so far
    body,         \* bytes of the response body not yet copied
    installs,     \* number of renames .part -> final so far (saturating)
    blob,         \* the content whose SHA-256 is the digest being downloaded
    resp,         \* what the registry answered to the call in progress
    ret,          \* what the last downloadBlob call returned
    had,          \* bytes of the blob on disk when the call in progress began
    keep,         \* options.keepStaging of the pulls run on the blobs directory
    declared,     \* the size the manifest declares for the blob
    pulls,        \* successful pulls so far on this reference (saturating)
    config,       \* manifest.Config: [digest, size], digest 0 for ""
    layers,       \* manifest.Layers: sequence of [digest, size]
    concurrency,  \* options.concurrency
    items,        \* run's items, after dedupeBlobs
    rpc,          \* position of run() from the manifest write on
    nextItem,     \* index in items of the next blob to hand to a goroutine
    sem,          \* tokens in the sem channel
    waited,       \* tokens the wait loop has put into sem
    running,      \* indices of the items whose goroutine has not finished
    launches,     \* per digest: goroutines started for it in this pull
    failures,     \* errors sent to errCh
    events,       \* what has happened in this pull, in order
    front,        \* the program serving the session: "queue" or "web"
    job,          \* queue: the downloadTask of the session
    globalCancel, \* web: globalCancel is non-nil
    pauseRequested, \* web: the pauseRequested flag
    currentSessionDir, \* web: currentSessionDir is the staging directory
    sctx,         \* the context of the session's pull
    spos,         \* position of the session's pull inside run()
    sret,         \* the error the session's run() returned
    stagingDir,   \* the session's staging directory exists
    sessionJson,  \* session.json in the staging directory
    wrote,        \* the pull in progress has saved session.json
    accepted,     \* the pause or cancel the pull in progress was stopped by
    listing,      \* what the last discovery made of the staging directory
    retries,      \* httpReqWithRetry's retries argument
    url,          \* the retry keywords the request URL's text contains
    attempt,      \* httpReqWithRetry's loop index i
    requests,     \* client.Do calls made by the httpReqWithRetry call
    rtpos,        \* position inside httpReqWithRetry
    rctx,         \* the context passed to httpReqWithRetry
    lastDo,       \* what the last client.Do returned
    rtret,        \* what httpReqWithRetry returned
    ref,          \* run's ref: Reference, ReferenceTag, IsDigest
    platform,     \* options.platform, as its "/"-separated segments
    idx,          \* imageIndex.Manifests of the index the registry holds
    manifestType, \* run's manifestType
    chosenType,   \* the media type of the response to the chosen digest
    chosen,       \* run's chosen
    ipc,          \* position of run() from the manifest request on
    ierr,         \* why run() returned an error
    fetched,      \* the references requested from /manifests/, in order
    doc,          \* the document in manifestJSON: "first" or "chosen"
    manifestName, \* the name of the manifest file written
    total,        \* progress.total
    done,         \* progress.done
    adding,       \* per goroutine: inside Add after the AddInt64, and newVal
    calls,        \* Add, Write and SetDone calls begun so far
    counted,      \* the counter had every call so far been one atomic step
    modelArg,     \* SanitizeModelName's argument, as its characters
    sanitized,    \* what SanitizeModelName returned
    sanitizeCalled, \* SanitizeModelName has returned
    dmDownloads,  \* DownloadManager: the Download structs ever made, by id
    dmQueue,      \* DownloadManager.queue
    dmRunning,    \* DownloadManager.running
    dmMaxConcurrent, \* DownloadManager.maxConcurrent
    dmWorkers,    \* the downloadWorker goroutines that have not returned
    dmPending,    \* the processQueue goroutines that have not run yet
    dmCalls,      \* the calls of the manager's methods so far
    dmShut,       \* Shutdown: "none", "waiting" in wg.Wait, "returned"
    entry,        \* which program serves the requests: "queue" or "web"
    pullers,      \* per goroutine slot: the run() it executes, or Free
    cancelSlot,   \* web server: the slot whose cancel globalCancel holds, 0 for nil
    stagings,     \* the staging directories that hold a session.json
    qTasks,       \* queue manager: the tasks' [model, State], the index is the ID
    qWorker,      \* queue manager: the slot of the pull runQueue waits for, 0 for none
    tItems,       \* parallel fetch: per item its size and the lengths on disk
    tWorkers,     \* parallel fetch: per item the position of its goroutine
    tPc,          \* parallel fetch: position of run()
    outputDir,    \* index page: the entries of the output directory
    metas,        \* index page: the sessions discovered
    catRunning,   \* CategorizeSessions: running (no view or one)
    catPaused,    \* CategorizeSessions: paused
    catErrored,   \* CategorizeSessions: errored
    catPc,        \* index page: position of the handler
    goarch,       \* runtime.GOARCH, as its characters
    defaultPlatform, \* the default platform, "" until it is computed
    tree,         \* the entries filepath.Walk visits under models/, in order
    zpc,          \* position inside zipDir
    zidx,         \* index in tree of the next entry to write
    outZip,       \* the file at the output archive path
    served        \* what handleZip last sent to a client

mgrVars  == <<tasks, wpc, wtask, ctx, phase, pullErr, staging, reply, lastFinish>>
blobVars == <<part, final, bpc, expectedSize, start, offset, hasher, body,
              installs, blob, resp, ret, had>>
rerunVars == <<keep, declared, pulls>>
fetchVars == <<config, layers, concurrency, items, rpc, nextItem, sem, waited,
               running, launches, failures, events>>
sessVars == <<front, job, globalCancel, pauseRequested, currentSessionDir, sctx,
              spos, sret, stagingDir, sessionJson, wrote, accepted, listing>>
retryVars == <<retries, url, attempt, requests, rtpos, rctx, lastDo, rtret>>
indexVars == <<ref, platform, idx, manifestType, chosenType, chosen, ipc, ierr,
               fetched, doc, manifestName>>
progressVars == <<total, done, adding, calls, counted>>
sanitizeVars == <<modelArg, sanitized, sanitizeCalled>>
dmVars == <<dmDownloads, dmQueue, dmRunning, dmMaxConcurrent, dmWorkers, dmPending, dmShut,
           dmCalls>>
writerVars == <<entry, pullers, cancelSlot, stagings, qTasks, qWorker>>
tallyVars == <<tItems, tWorkers, tPc>>
categorizeVars == <<outputDir, metas, catRunning, catPaused, catErrored, catPc>>
archVars == <<goarch, defaultPlatform>>
lateVars == <<writerVars, tallyVars, categorizeVars, archVars>>
moreVars == <<retryVars, indexVars, progressVars, sanitizeVars, dmVars, lateVars>>
auxVars  == <<rerunVars, fetchVars, sessVars, moreVars>>
zipVars  == <<tree, zpc, zidx, outZip, served>>
vars     == <<mgrVars, blobVars, zipVars, auxVars>>

----------------------------------------------------------------------------
(* Bounds *)

\* tasks the manager holds
MaxTasks == 2
\* longest blob content
MaxBlob == 3
\* longest .part file (response bodies are cut so that it is not exceeded)
MaxPart == 3
\* largest size a manifest declares for the blob
MaxSize == 3
\* the install counter saturates here
MaxInstalls == 2
\* most entries under models/
MaxEntries == 3
\* the counter of successful pulls saturates here
MaxPulls == 2
\* distinct digests a manifest names
MaxDigests == 2
\* layers of a manifest
MaxLayers == 2
\* largest options.concurrency
MaxConcurrency == 2
\* largest retries argument
MaxRetries == 2
\* most entries of an index
MaxIndex == 2
\* largest progress.total
MaxTotal == 2
\* most calls on one progress tracker
MaxCalls == 3
\* longest model name
MaxName == 3
\* downloads given to the generic manager
MaxDownloads == 3
\* downloadWorker goroutines alive at once
MaxWorkers == 3
\* processQueue goroutines waiting for the lock at once
MaxPending == 1
\* calls of the generic manager's methods in one run
MaxManagerCalls == 5
\* bytes of a generic download
MaxProgress == 1
\* goroutines executing run() at one time, models requested, tasks enqueued
MaxPullers == 2
MaxModels == 2
MaxEnqueued == 2
\* blobs of a parallel fetch, and bytes of all of them together
MaxBlobs == 2
MaxBytes == 4
\* entries of the output directory
MaxSessions == 2
\* downloads of the generic manager when every attempt fails
MaxFailing == 2
\* longest architecture name
MaxArch == 5

----------------------------------------------------------------------------
(* queueState, main.go *)

stateQueued      == "queued"
stateDownloading == "downloading"
statePaused      == "paused"
stateCanceled    == "canceled"
stateError       == "error"
stateDone        == "done"

TaskIds == 1..MaxTasks
\* ids a request may carry: the existing ones and one that names no task
RequestIds == 1..(MaxTasks + 1)
RequestActions == {"pause", "resume", "cancel", "bogus"}

\* options.keepStaging as downloadModel builds it (the field is left unset)
keepStaging == FALSE

downloadTask(st, msg, cancelSet, progressSet) ==
    [State |-> st, Message |-> msg, cancel |-> cancelSet, Progress |-> progressSet]

NoReply == "none"
NoFinish == [task |-> 0, before |-> "none", after |-> "none", err |-> "none"]

\* steps that are neither performAction nor runQueue's bookkeeping
quiet == reply' = NoReply /\ lastFinish' = NoFinish

----------------------------------------------------------------------------
(* Download manager: main.go *)

\* nextQueuedTaskLocked: index of the first task in state queued, 0 if none
nextQueuedTaskLocked(ts) ==
    IF \E i \in 1..Len(ts) : ts[i].State = stateQueued
    THEN CHOOSE i \in 1..Len(ts) :
            /\ ts[i].State = stateQueued
            /\ \A j \in 1..(i - 1) : ts[j].State # stateQueued
    ELSE 0

\* findTaskLocked: index of the task with this id, 0 if none
findTaskLocked(ts, id) == IF id \in 1..Len(ts) THEN id ELSE 0

\* Enqueue: append a new queued task and signal the worker
Enqueue ==
    /\ Len(tasks) < MaxTasks
    /\ tasks' = Append(tasks, downloadTask(stateQueued, "Queued", FALSE, FALSE))
    /\ staging' = Append(staging, FALSE)
    /\ quiet
    /\ UNCHANGED <<wpc, wtask, ctx, phase, pullErr, blobVars, zipVars, auxVars>>

\* performAction's switch on a found task: the task after the action, the
\* returned ok, and whether task.cancel() was called
performActionNoQueuedPause(task, action) ==
    CASE action = "pause" /\ task.State = stateDownloading ->
            [task |-> [task EXCEPT !.State = statePaused, !.Message = "Paused"],
             ok |-> TRUE, invoked |-> task.cancel]
      [] action = "resume" /\ task.State \in {statePaused, stateError, stateCanceled} ->
            [task |-> [task EXCEPT !.State = stateQueued, !.Message = "Queued",
                                   !.Progress = FALSE],
             ok |-> TRUE, invoked |-> FALSE]
      [] action = "cancel" /\ task.State = stateDownloading ->
            [task |-> [task EXCEPT !.State = stateCanceled, !.Message = "Canceled"],
             ok |-> TRUE, invoked |-> task.cancel]
      [] action = "cancel" /\ task.State \in {stateQueued, statePaused} ->
            [task |-> [task EXCEPT !.State = stateCanceled, !.Message = "Canceled"],
             ok |-> TRUE, invoked |-> FALSE]
      [] OTHER -> [task |-> task, ok |-> FALSE, invoked |-> FALSE]

performActionResult(task, action) ==
    CASE action = "pause" /\ task.State = stateDownloading ->
            [task |-> [task EXCEPT !.State = statePaused, !.Message = "Paused"],
             ok |-> TRUE, invoked |-> task.cancel]
      [] action = "pause" /\ task.State = stateQueued ->
            [task |-> [task EXCEPT !.State = statePaused, !.Message = "Paused"],
             ok |-> TRUE, invoked |-> FALSE]
      [] action = "resume" /\ task.State \in {statePaused, stateError, stateCanceled} ->
            [task |-> [task EXCEPT !.State = stateQueued, !.Message = "Queued",
                                   !.Progress = FALSE],
             ok |-> TRUE, invoked |-> FALSE]
      [] action = "cancel" /\ task.State = stateDownloading ->
            [task |-> [task EXCEPT !.State = stateCanceled, !.Message = "Canceled"],
             ok |-> TRUE, invoked |-> task.cancel]
      [] action = "cancel" /\ task.State \in {stateQueued, statePaused} ->
            [task |-> [task EXCEPT !.State = stateCanceled, !.Message = "Canceled"],
             ok |-> TRUE, invoked |-> FALSE]
      [] OTHER -> [task |-> task, ok |-> FALSE, invoked |-> FALSE]

\* performAction(id, action), under m.mu. task.cancel, when set, is the
\* cancel function of the context of the pull runQueue executes for the task.
\* reply is the bool it returns.
performAction(id, action) ==
    LET i == findTaskLocked(tasks, id) IN
    IF i = 0
    THEN /\ reply' = "failed"
         /\ UNCHANGED <<tasks, ctx>>
    ELSE LET r == performActionResult(tasks[i], action) IN
         /\ tasks' = [tasks EXCEPT ![i] = r.task]
         /\ ctx' = IF r.invoked THEN "canceled" ELSE ctx
         /\ reply' = IF r.ok THEN "ok" ELSE "failed"

\* what a performAction step leaves alone
performActionFrame ==
    /\ lastFinish' = NoFinish
    /\ UNCHANGED <<wpc, wtask, phase, pullErr, staging, blobVars, zipVars, auxVars>>

\* POST /queue/action
handleQueueAction ==
    /\ \E id \in RequestIds, action \in RequestActions : performAction(id, action)
    /\ performActionFrame

\* runQueue, lines 237-246: wait for a queued task and mark it downloading
runQueuePick ==
    /\ wpc = "idle"
    /\ nextQueuedTaskLocked(tasks) # 0
    /\ LET i == nextQueuedTaskLocked(tasks) IN
         /\ tasks' = [tasks EXCEPT ![i].State = stateDownloading,
                                   ![i].Message = "Downloading..."]
         /\ wtask' = i
    /\ wpc' = "marked"
    /\ quiet
    /\ UNCHANGED <<ctx, phase, pullErr, staging, blobVars, zipVars, auxVars>>

\* runQueue, lines 248-253: the new context; task.cancel and task.Progress
\* are stored without the mutex; downloadModel is entered
runQueueStart ==
    /\ wpc = "marked"
    /\ tasks' = [tasks EXCEPT ![wtask].cancel = TRUE, ![wtask].Progress = TRUE]
    /\ ctx' = "live"
    /\ phase' = "auth"
    /\ wpc' = "pulling"
    /\ quiet
    /\ UNCHANGED <<wtask, pullErr, staging, blobVars, zipVars, auxVars>>

\* the task state runQueue leaves after the pull, lines 257-273
finishStateKeepOnError(st, err) ==
    IF st = statePaused \/ st = stateCanceled THEN st
    ELSE IF err # "nil" THEN st ELSE stateDone

finishStateOnlyPaused(st, err) ==
    IF st = statePaused THEN st
    ELSE IF err # "nil" THEN stateError ELSE stateDone

finishState(st, err) ==
    IF st = statePaused \/ st = stateCanceled THEN st
    ELSE IF err # "nil"
         THEN IF err = "canceled" /\ (st = statePaused \/ st = stateCanceled)
              THEN st ELSE stateError
         ELSE stateDone

\* ... and the message, lines 257-273
finishMessage(st, msg, err) ==
    IF st = statePaused \/ st = stateCanceled THEN msg
    ELSE IF err # "nil" THEN err ELSE "Completed"

\* runQueue, lines 257-276
runQueueFinish ==
    /\ wpc = "returned"
    /\ LET t == tasks[wtask]
           st == finishState(t.State, pullErr) IN
         /\ tasks' = [tasks EXCEPT ![wtask] =
                        [t EXCEPT !.State = st,
                                  !.Message = finishMessage(t.State, t.Message, pullErr),
                                  !.cancel = FALSE]]
         /\ lastFinish' = [task |-> wtask, before |-> t.State, after |-> st,
                           err |-> pullErr]
    /\ wpc' = "idle"
    /\ wtask' = 0
    /\ ctx' = "none"
    /\ pullErr' = "nil"
    /\ reply' = NoReply
    /\ UNCHANGED <<phase, staging, blobVars, zipVars, auxVars>>

----------------------------------------------------------------------------
(* Pull engine: run() of download.go, as executed by downloadModel *)

\* httpReqWithRetry under the pull's context: a request made on a cancelled
\* context fails with context.Canceled; otherwise it succeeds or fails
httpOutcomes(c) == IF c = "canceled" THEN {"canceled"} ELSE {"ok", "other"}

\* run returns err to runQueue, which then calls cancel() (lines 254-255)
pullReturn(err) ==
    /\ pullErr' = err
    /\ wpc' = "returned"
    /\ phase' = "none"
    /\ ctx' = "canceled"

pullGoto(ph) ==
    /\ phase' = ph
    /\ UNCHANGED <<pullErr, wpc, ctx>>

\* run, lines 164-168: getRegistryToken
runAuth ==
    /\ wpc = "pulling" /\ phase = "auth"
    /\ \E r \in httpOutcomes(ctx) :
         IF r = "ok" THEN pullGoto("manifest") ELSE pullReturn(r)
    /\ quiet
    /\ UNCHANGED <<tasks, wtask, staging, blobVars, zipVars, auxVars>>

\* run, lines 170-265: getManifestOrIndex and platform selection
runManifest ==
    /\ wpc = "pulling" /\ phase = "manifest"
    /\ \E r \in httpOutcomes(ctx) :
         IF r = "ok" THEN pullGoto("stage") ELSE pullReturn(r)
    /\ quiet
    /\ UNCHANGED <<tasks, wtask, staging, blobVars, zipVars, auxVars>>

\* run, lines 267-324: ensureStagingRoot creates the directory; session.json
\* and the manifest file are written, and any file error returns
runStage ==
    /\ wpc = "pulling" /\ phase = "stage"
    /\ staging' = [staging EXCEPT ![wtask] = TRUE]
    /\ \E r \in {"ok", "other"} :
         IF r = "ok" THEN pullGoto("fetch") ELSE pullReturn(r)
    /\ quiet
    /\ UNCHANGED <<tasks, wtask, blobVars, zipVars, auxVars>>

\* run, lines 326-385: the parallel blob fetch. Blobs that are final on disk
\* (and a manifest without blobs) need no request, so the fetch can end
\* without the context being consulted; otherwise requests are made.
runFetch ==
    /\ wpc = "pulling" /\ phase = "fetch"
    /\ \E needRequest \in BOOLEAN :
         IF ~needRequest
         THEN pullGoto("zip")
         ELSE \E r \in httpOutcomes(ctx) :
                IF r = "ok" THEN pullGoto("zip") ELSE pullReturn(r)
    /\ quiet
    /\ UNCHANGED <<tasks, wtask, staging, blobVars, zipVars, auxVars>>

\* run, lines 387-393: MkdirAll and zipDir; neither looks at the context
runZip ==
    /\ wpc = "pulling" /\ phase = "zip"
    /\ \E r \in {"ok", "other"} :
         IF r = "ok" THEN pullGoto("cleanup") ELSE pullReturn(r)
    /\ quiet
    /\ UNCHANGED <<tasks, wtask, staging, blobVars, zipVars, auxVars>>

\* run, lines 272-277 and 403-404: success = true, the deferred RemoveAll
runCleanup ==
    /\ wpc = "pulling" /\ phase = "cleanup"
    /\ staging' = [staging EXCEPT ![wtask] = IF keepStaging THEN @ ELSE FALSE]
    /\ pullReturn("nil")
    /\ quiet
    /\ UNCHANGED <<tasks, wtask, blobVars, zipVars, auxVars>>

----------------------------------------------------------------------------
(* Blob downloader: downloadBlob of download.go, one digest, one blobs dir *)

Byte == {0, 1}

RECURSIVE SeqsUpTo(_)
SeqsUpTo(n) ==
    IF n = 0 THEN {<<>>}
    ELSE LET shorter == SeqsUpTo(n - 1) IN
         shorter \cup {Append(q, b) : q \in {x \in shorter : Len(x) = n - 1}, b \in Byte}

Absent == [exists |-> FALSE, data |-> <<>>]
File(d) == [exists |-> TRUE, data |-> d]

\* SHA-256 as a collision-free digest: the content read as a number in
\* base 3 with digits byte+1
RECURSIVE sha256(_)
sha256(content) ==
    IF content = <<>> THEN 0
    ELSE (Head(content) + 1) + 3 * sha256(Tail(content))

\* the <hex> of the digest argument
hexhash == sha256(blob)

\* verifyFileHash(path, expected), lines 663-674
verifyFileHash(file, expected) == sha256(file.data) = expected

\* hashExistingFile(tmp, hasher), lines 653-661: the whole file is fed to
\* the hasher, whatever the start offset n
hashExistingFile(file, n) == file.data

\* the comparison of the streamed sum with the digest, lines 641-644
sumMatches(sum) == sum = hexhash

\* file.Write at the current offset of a file opened without O_APPEND
writeAt(data, off, b) ==
    IF off < Len(data) THEN [data EXCEPT ![off + 1] = b]
    ELSE Append(data, b)

min(a, b) == IF a < b THEN a ELSE b

NoHad == [disk |-> 0, part |-> 0]

\* downloadBlob returns r ("nil" or "err")
blobIdle ==
    /\ bpc' = "idle"
    /\ expectedSize' = 0
    /\ start' = 0
    /\ offset' = 0
    /\ hasher' = <<>>
    /\ body' = <<>>
    /\ resp' = "none"
    /\ had' = NoHad

blobReturn(r) == blobIdle /\ ret' = r

\* os.Rename(tmp, outPath), lines 562 and 650
renameToFinal ==
    /\ final' = File(part.data)
    /\ part' = Absent
    /\ installs' = min(installs + 1, MaxInstalls)

\* the error returns of downloadBlob (lines 592-597, 637-644): nothing is
\* removed or renamed
failedUnlinksPart == part' = Absent /\ UNCHANGED <<final, installs>>

failed == UNCHANGED <<part, final, installs>>

\* the test that lets an existing final file stand, lines 546-553
finalStandsNever(E) == FALSE

finalStands(E) == final.exists /\ (E <= 0 \/ Len(final.data) >= E)

\* the resume offset, lines 567-573
startOffsetZero(p, E) == 0

startOffset(p, E) ==
    IF p.exists
    THEN (IF E > 0 /\ Len(p.data) > E THEN E ELSE Len(p.data))
    ELSE 0

\* existingBytesForBlob, lines 684-706, on the final file f and the .part p
existingBytesForBlob(f, p, E) ==
    IF f.exists THEN (IF E > 0 /\ Len(f.data) > E THEN E ELSE Len(f.data))
    ELSE IF p.exists THEN (IF E > 0 /\ Len(p.data) > E THEN E ELSE Len(p.data))
    ELSE 0

\* downloadBlob with expectedSize E, lines 540-573: the decisions taken
\* before the request
downloadBlobCall(E) ==
    /\ bpc = "idle"
    /\ IF finalStands(E)
       THEN blobReturn("nil") /\ UNCHANGED <<part, final, installs>>
       ELSE IF E > 0 /\ part.exists /\ Len(part.data) = E
               /\ verifyFileHash(part, hexhash)
            THEN renameToFinal /\ blobReturn("nil")
            ELSE /\ bpc' = "request"
                 /\ expectedSize' = E
                 /\ start' = startOffset(part, E)
                 /\ ret' = "none"
                 /\ had' = [disk |-> existingBytesForBlob(final, part, E),
                            part |-> existingBytesForBlob(Absent, part, E)]
                 /\ UNCHANGED <<part, final, installs, offset, hasher, body, resp>>

\* a call of downloadBlob with any declared size
downloadBlobEnter ==
    /\ \E E \in 0..MaxSize : downloadBlobCall(E)
    /\ UNCHANGED <<mgrVars, blob, zipVars, auxVars>>

\* what the answer is: the requested range of the blob with 206, the whole
\* blob with 200 (a downgrade when a range was asked), or anything else
answerKind(status, b) ==
    IF status = 206 /\ start <= Len(blob) /\ b = SubSeq(blob, start + 1, Len(blob))
    THEN "range"
    ELSE IF status = 200 /\ b = blob
         THEN (IF start > 0 THEN "downgrade" ELSE "full")
         ELSE "other"

\* downloadBlob, lines 575-631: the request, its answer, and the opening of
\* the .part file. status 0 stands for a transport error.
blobResponse ==
    /\ bpc = "request"
    /\ \E status \in {0, 200, 206, 404} :
         IF status # 200 /\ status # 206
         THEN blobReturn("err") /\ failed
         ELSE LET downgrade == status = 200 /\ start > 0
                  opened == IF part.exists THEN part.data ELSE <<>>
                  at == IF downgrade THEN 0 ELSE start
              IN  /\ part' = File(IF downgrade THEN <<>> ELSE opened)
                  /\ offset' = at
                  /\ start' = at
                  /\ hasher' = IF start > 0 /\ ~downgrade
                               THEN hashExistingFile(part, start) ELSE <<>>
                  /\ \E b \in SeqsUpTo(MaxPart - at) :
                       /\ body' = b
                       /\ resp' = answerKind(status, b)
                  /\ bpc' = "copy"
                  /\ UNCHANGED <<final, installs, expectedSize, ret, had>>

downloadBlobResponse ==
    /\ blobResponse
    /\ UNCHANGED <<mgrVars, blob, zipVars, auxVars>>

\* io.Copy, line 637: one byte goes to the file and to the hasher
blobCopy ==
    /\ bpc = "copy"
    /\ body # <<>>
    /\ part' = File(writeAt(part.data, offset, Head(body)))
    /\ offset' = offset + 1
    /\ hasher' = Append(hasher, Head(body))
    /\ body' = Tail(body)
    /\ UNCHANGED <<final, bpc, expectedSize, start, installs, resp, ret, had>>

downloadBlobCopy ==
    /\ blobCopy
    /\ UNCHANGED <<mgrVars, blob, zipVars, auxVars>>

\* io.Copy returns an error (connection lost, context cancelled), line 638
blobCopyFail ==
    /\ bpc = "copy"
    /\ blobReturn("err") /\ failed

downloadBlobCopyFail ==
    /\ blobCopyFail
    /\ UNCHANGED <<mgrVars, blob, zipVars, auxVars>>

\* downloadBlob, lines 641-650: digest check, close, rename
blobFinalize ==
    /\ bpc = "copy"
    /\ body = <<>>
    /\ IF sumMatches(sha256(hasher))
       THEN renameToFinal /\ blobReturn("nil")
       ELSE failed /\ blobReturn("err")

downloadBlobFinalize ==
    /\ blobFinalize
    /\ UNCHANGED <<mgrVars, blob, zipVars, auxVars>>

----------------------------------------------------------------------------
(* Repeated pulls of one reference on one staging directory: run() of
   download.go, reduced to a manifest with one blob *)

\* run, lines 364-385: the fetch of the blob with the size the manifest
\* declares
pullFetchBlob ==
    /\ ret = "none"
    /\ downloadBlobCall(declared)
    /\ UNCHANGED <<mgrVars, blob, zipVars, auxVars>>

\* one more attempt at the blob, by the next pull of the same reference: the
\* manifest of a correct registry declares the blob's length
retryBlob ==
    /\ bpc = "idle"
    /\ downloadBlobCall(declared)
    /\ UNCHANGED <<mgrVars, blob, zipVars, auxVars>>

\* the answer of a registry that honours Range: without a Range header 200
\* and the blob, to bytes=start- with start inside the blob 206 and the rest
\* of the blob, and to a start at or past its end 416, which downloadBlob
\* returns as an error (line 596)
rangeHonoured ==
    /\ downloadBlobResponse
    /\ IF start > 0 /\ start >= Len(blob)
       THEN ret' = "err"
       ELSE /\ bpc' = "copy"
            /\ resp' = (IF start > 0 THEN "range" ELSE "full")

\* run, lines 387-404 and 272-277: the fetch returned nil, the archive is
\* written, success = true, and the deferred function removes the staging
\* directory unless keepStaging
pullSuccess ==
    /\ bpc = "idle" /\ ret = "nil"
    /\ pulls' = min(pulls + 1, MaxPulls)
    /\ IF keep
       THEN UNCHANGED <<part, final>>
       ELSE part' = Absent /\ final' = Absent
    /\ ret' = "none"
    /\ UNCHANGED <<bpc, expectedSize, start, offset, hasher, body, installs,
                   blob, resp, had, keep, declared, fetchVars, sessVars, moreVars,
                   mgrVars, zipVars>>

\* run, lines 380-393: the fetch or the packaging returned an error; the
\* staging directory stays
pullFailure ==
    /\ bpc = "idle" /\ ret \in {"nil", "err"}
    /\ ret' = "none"
    /\ UNCHANGED <<part, final, bpc, expectedSize, start, offset, hasher, body,
                   installs, blob, resp, had, auxVars, mgrVars, zipVars>>

----------------------------------------------------------------------------
(* The blob stage of one pull: run() of download.go, lines 310-405, with
   the goroutines it starts *)

Digests == 1..MaxDigests
Sizes == {1, 2}
blobItem(d, n) == [digest |-> d, size |-> n]

\* lines 326-333: [config] ++ layers, the config only if it has a digest
enumerate(c, ls) == IF c.digest # 0 THEN <<c>> \o ls ELSE ls

\* dedupeBlobs, lines 413-424: the first item of every digest, in order
dedupeBlobsKeepAll(its) == its

RECURSIVE dedupeFrom(_, _, _)
dedupeFrom(its, seen, out) ==
    IF its = <<>> THEN out
    ELSE IF Head(its).digest \in seen
         THEN dedupeFrom(Tail(its), seen, out)
         ELSE dedupeFrom(Tail(its), seen \cup {Head(its).digest},
                         Append(out, Head(its)))

dedupeBlobs(its) == dedupeFrom(its, {}, <<>>)

max(a, b) == IF a > b THEN a ELSE b

\* cap(sem), line 364
semCapOneMore == max(1, concurrency) + 1

semCap == max(1, concurrency)

\* cap(errCh), line 365: one slot per item
errChUnbuffered(its) == 0

errChCap(its) == Len(its)

\* the number of tokens the wait loop puts into sem, lines 377-380
waitTokensNone(c) == 0

waitTokens(c) == c

fetchFrame == UNCHANGED <<mgrVars, blobVars, zipVars, rerunVars, sessVars, moreVars>>

\* lines 310-334: the manifest file is written and the items enumerated
runWriteManifest ==
    /\ rpc = "manifest"
    /\ \E ok \in BOOLEAN :
         IF ok
         THEN /\ events' = Append(events, "manifest")
              /\ items' = dedupeBlobs(enumerate(config, layers))
              /\ rpc' = "dispatch"
              /\ nextItem' = 1
         ELSE /\ rpc' = "failed"
              /\ UNCHANGED <<events, items, nextItem>>
    /\ UNCHANGED <<config, layers, concurrency, sem, waited, running, launches,
                   failures>>
    /\ fetchFrame

\* lines 366-376: a token is put into sem and the goroutine of the next
\* item is started
runDispatch ==
    /\ rpc = "dispatch"
    /\ nextItem <= Len(items)
    /\ sem < semCap
    /\ sem' = sem + 1
    /\ running' = running \cup {nextItem}
    /\ launches' = [launches EXCEPT ![items[nextItem].digest] = @ + 1]
    /\ events' = Append(events, "fetch")
    /\ nextItem' = nextItem + 1
    /\ UNCHANGED <<config, layers, concurrency, items, rpc, waited, failures>>
    /\ fetchFrame

\* lines 369-374: a goroutine's downloadBlob returns; an error goes to errCh,
\* which takes it only while it has a free slot, and the deferred function
\* takes the token back
goroutineReturn ==
    /\ \E i \in running :
         /\ running' = running \ {i}
         /\ sem' = sem - 1
         /\ \E ok \in BOOLEAN :
              IF ok THEN failures' = failures
              ELSE /\ failures < errChCap(items)
                   /\ failures' = failures + 1
    /\ events' = Append(events, "fetched")
    /\ UNCHANGED <<config, layers, concurrency, items, rpc, nextItem, waited,
                   launches>>
    /\ fetchFrame

\* line 376: the loop over items is over
runDispatched ==
    /\ rpc = "dispatch"
    /\ nextItem > Len(items)
    /\ rpc' = "wait"
    /\ UNCHANGED <<config, layers, concurrency, items, nextItem, sem, waited,
                   running, launches, failures, events>>
    /\ fetchFrame

\* lines 377-380: the wait loop puts one more token into sem
runWait ==
    /\ rpc = "wait"
    /\ waited < waitTokens(semCap)
    /\ sem < semCap
    /\ sem' = sem + 1
    /\ waited' = waited + 1
    /\ UNCHANGED <<config, layers, concurrency, items, rpc, nextItem, running,
                   launches, failures, events>>
    /\ fetchFrame

\* lines 381-390: errCh is closed and read; without an error zipDir starts
runAfterWait ==
    /\ rpc = "wait"
    /\ waited >= waitTokens(semCap)
    /\ IF failures > 0
       THEN rpc' = "failed" /\ UNCHANGED events
       ELSE rpc' = "zip" /\ events' = Append(events, "zip")
    /\ UNCHANGED <<config, layers, concurrency, items, nextItem, sem, waited,
                   running, launches, failures>>
    /\ fetchFrame

\* lines 390-404 and 272-277: zipDir returns; on success the deferred
\* function removes the staging directory unless keepStaging
runZipped ==
    /\ rpc = "zip"
    /\ \E ok \in BOOLEAN :
         IF ok
         THEN /\ rpc' = "done"
              /\ events' = IF keep THEN Append(events, "zipped")
                           ELSE events \o <<"zipped", "removed">>
         ELSE /\ rpc' = "failed"
              /\ events' = Append(events, "zipfailed")
    /\ UNCHANGED <<config, layers, concurrency, items, nextItem, sem, waited,
                   running, launches, failures>>
    /\ fetchFrame

----------------------------------------------------------------------------
(* Session metadata: session.json of one staging directory, written by run()
   of download.go and by the program that starts the pulls. Two programs
   start pulls on a staging directory: the queue manager of main.go (front
   "queue", one downloadTask) and the single-session web server (front "web",
   with globalCancel, pauseRequested and currentSessionDir). One pull runs on
   the directory at a time. *)

NoMeta    == [kind |-> "absent", State |-> "", Message |-> ""]
Malformed == [kind |-> "malformed", State |-> "", Message |-> ""]
sessionMeta(st, msg) == [kind |-> "meta", State |-> st, Message |-> msg]

NoStop == [action |-> "none", wrote |-> FALSE]

\* loadSessionMeta: the error it returns for the file f
loadSessionMeta(f) ==
    CASE f.kind = "meta"   -> "nil"
      [] f.kind = "absent" -> "ErrNotExist"
      [] OTHER             -> "syntax"

\* setSessionStatus(dir, state, message): session.json afterwards; nothing is
\* written when dir is "" or the file cannot be loaded
setSessionStatus(dirSet, f, st, msg) ==
    IF ~dirSet \/ loadSessionMeta(f) # "nil" THEN f ELSE sessionMeta(st, msg)

\* err == context.Canceled, the test of the web server's goroutine
isCanceledValue(err) == err = "canceled"

\* errors.Is(err, context.Canceled), the test of runQueue
isCanceled(err) == err \in {"canceled", "wrapped"}

sessFrame == UNCHANGED <<mgrVars, blobVars, zipVars, rerunVars, fetchVars, moreVars>>

\* run returns err
sessReturn(err) ==
    /\ sret' = err
    /\ spos' = "returned"

\* runQueue, lines 237-253, for the one task: it is marked downloading, gets
\* its cancel function and its pull starts
sessRunQueueStart ==
    /\ front = "queue" /\ spos = "none"
    /\ job.State = stateQueued
    /\ job' = [job EXCEPT !.State = stateDownloading, !.Message = "Downloading...",
                          !.cancel = TRUE, !.Progress = TRUE]
    /\ sctx' = "live"
    /\ spos' = "requests"
    /\ sret' = "nil"
    /\ wrote' = FALSE
    /\ accepted' = NoStop
    /\ UNCHANGED <<front, globalCancel, pauseRequested, currentSessionDir,
                   stagingDir, sessionJson, listing>>
    /\ sessFrame

\* performAction on the task: pause, resume or cancel. Nothing in it reads
\* or writes session.json.
sessPerformAction ==
    /\ front = "queue"
    /\ \E action \in {"pause", "resume", "cancel"} :
         LET r == performActionResult(job, action) IN
         /\ r.ok
         /\ job' = r.task
         /\ sctx' = IF r.invoked THEN "canceled" ELSE sctx
         /\ accepted' = IF action = "resume" THEN NoStop
                        ELSE [action |-> action, wrote |-> wrote]
    /\ UNCHANGED <<front, globalCancel, pauseRequested, currentSessionDir, spos,
                   sret, stagingDir, sessionJson, wrote, listing>>
    /\ sessFrame

\* runQueue, lines 254-276: cancel(), then the bookkeeping of the task
sessRunQueueFinish ==
    /\ front = "queue" /\ spos = "returned"
    /\ LET err == IF isCanceled(sret) THEN "canceled" ELSE sret IN
         job' = [job EXCEPT !.State = finishState(job.State, err),
                            !.Message = finishMessage(job.State, job.Message, sret),
                            !.cancel = FALSE]
    /\ sctx' = "canceled"
    /\ spos' = "none"
    /\ UNCHANGED <<front, globalCancel, pauseRequested, currentSessionDir, sret,
                   stagingDir, sessionJson, wrote, accepted, listing>>
    /\ sessFrame

\* beginDownloadSession up to the go statement
beginDownloadSession ==
    /\ pauseRequested' = FALSE
    /\ currentSessionDir' = TRUE
    /\ globalCancel' = TRUE
    /\ sctx' = "live"
    /\ spos' = "requests"
    /\ sret' = "nil"
    /\ wrote' = FALSE
    /\ accepted' = NoStop

\* POST /download: a pull of the model whose staging directory this is
handleDownload ==
    /\ front = "web" /\ spos = "none"
    /\ beginDownloadSession
    /\ UNCHANGED <<front, job, stagingDir, sessionJson, listing>>
    /\ sessFrame

\* POST /resume: 404 unless session.json loads; the status becomes
\* "downloading" and the pull starts
handleResume ==
    /\ front = "web" /\ spos = "none"
    /\ loadSessionMeta(sessionJson) = "nil"
    /\ sessionJson' = setSessionStatus(TRUE, sessionJson, "downloading", "resuming")
    /\ beginDownloadSession
    /\ UNCHANGED <<front, job, stagingDir, listing>>
    /\ sessFrame

\* POST /pause
handlePause ==
    /\ front = "web"
    /\ IF globalCancel
       THEN /\ pauseRequested' = TRUE
            /\ sessionJson' = setSessionStatus(currentSessionDir, sessionJson,
                                               "paused", "paused")
            /\ sctx' = "canceled"
            /\ accepted' = [action |-> "pause", wrote |-> wrote]
       ELSE UNCHANGED <<pauseRequested, sessionJson, sctx, accepted>>
    /\ UNCHANGED <<front, job, globalCancel, currentSessionDir, spos, sret,
                   stagingDir, wrote, listing>>
    /\ sessFrame

\* POST /cancel
handleCancel ==
    /\ front = "web"
    /\ pauseRequested' = FALSE
    /\ IF globalCancel
       THEN /\ sessionJson' = setSessionStatus(currentSessionDir, sessionJson,
                                               "paused", "canceled")
            /\ sctx' = "canceled"
            /\ accepted' = [action |-> "cancel", wrote |-> wrote]
       ELSE UNCHANGED <<sessionJson, sctx, accepted>>
    /\ UNCHANGED <<front, job, globalCancel, currentSessionDir, spos, sret,
                   stagingDir, wrote, listing>>
    /\ sessFrame

\* the goroutine of beginDownloadSession after run returned
goroutineFinish ==
    /\ front = "web" /\ spos = "returned"
    /\ globalCancel' = FALSE
    /\ currentSessionDir' = FALSE
    /\ pauseRequested' = FALSE
    /\ sessionJson' = IF sret # "nil" /\ ~isCanceledValue(sret)
                      THEN setSessionStatus(TRUE, sessionJson, "error", sret)
                      ELSE sessionJson
    /\ spos' = "none"
    /\ UNCHANGED <<front, job, sctx, sret, stagingDir, wrote, accepted, listing>>
    /\ sessFrame

\* run, lines 164-286: the token and manifest requests, made under the
\* pull's context, then ensureStagingRoot and the MkdirAll calls
sessRunRequests ==
    /\ spos = "requests"
    /\ IF sctx = "canceled"
       THEN sessReturn("wrapped") /\ UNCHANGED stagingDir
       ELSE \/ sessReturn("other") /\ UNCHANGED stagingDir
            \/ /\ stagingDir' = TRUE
               /\ spos' = "load"
               /\ UNCHANGED sret
    /\ UNCHANGED <<front, job, globalCancel, pauseRequested, currentSessionDir,
                   sctx, sessionJson, wrote, accepted, listing>>
    /\ sessFrame

\* run, lines 289-292: loadSessionMeta; only os.ErrNotExist is let through
runLoadSessionMeta ==
    /\ spos = "load"
    /\ IF loadSessionMeta(sessionJson) \in {"nil", "ErrNotExist"}
       THEN spos' = "save" /\ UNCHANGED sret
       ELSE sessReturn("other")

sessRunLoad ==
    /\ runLoadSessionMeta
    /\ UNCHANGED <<front, job, globalCancel, pauseRequested, currentSessionDir,
                   sctx, stagingDir, sessionJson, wrote, accepted, listing>>
    /\ sessFrame

\* run, lines 293-308: the fields are set, State "downloading", and
\* saveSessionMeta writes the file or fails
sessRunSave ==
    /\ spos = "save"
    /\ \/ /\ sessionJson' = sessionMeta("downloading", "downloading")
          /\ wrote' = TRUE
          /\ spos' = "fetch"
          /\ UNCHANGED sret
       \/ /\ sessReturn("other")
          /\ UNCHANGED <<sessionJson, wrote>>
    /\ UNCHANGED <<front, job, globalCancel, pauseRequested, currentSessionDir,
                   sctx, stagingDir, accepted, listing>>
    /\ sessFrame

\* run, lines 310-385 and downloadBlob, lines 586-592: the manifest file and
\* the blob requests. Blobs already on disk need no request.
sessRunFetch ==
    /\ spos = "fetch"
    /\ \/ spos' = "zip" /\ UNCHANGED sret
       \/ IF sctx = "canceled"
          THEN sessReturn("wrapped")
          ELSE \/ sessReturn("other")
               \/ spos' = "copy" /\ UNCHANGED sret
    /\ UNCHANGED <<front, job, globalCancel, pauseRequested, currentSessionDir,
                   sctx, stagingDir, sessionJson, wrote, accepted, listing>>
    /\ sessFrame

\* downloadBlob, lines 619-650: io.Copy of the response body. A read of the
\* body after the context was cancelled fails with context.Canceled itself
\* or with an error wrapping it, as the transport chooses.
sessRunCopy ==
    /\ spos = "copy"
    /\ IF sctx = "canceled"
       THEN \E e \in {"canceled", "wrapped"} : sessReturn(e)
       ELSE \/ sessReturn("other")
            \/ spos' = "zip" /\ UNCHANGED sret
    /\ UNCHANGED <<front, job, globalCancel, pauseRequested, currentSessionDir,
                   sctx, stagingDir, sessionJson, wrote, accepted, listing>>
    /\ sessFrame

\* run, lines 387-404 and 272-277: the archive; on success the deferred
\* function removes the staging directory (keepStaging is false in both
\* programs), session.json with it
sessRunZip ==
    /\ spos = "zip"
    /\ \/ /\ sessReturn("other")
          /\ UNCHANGED <<stagingDir, sessionJson>>
       \/ /\ sessReturn("nil")
          /\ stagingDir' = FALSE
          /\ sessionJson' = NoMeta
    /\ UNCHANGED <<front, job, globalCancel, pauseRequested, currentSessionDir,
                   sctx, wrote, accepted, listing>>
    /\ sessFrame

\* discoverPartialSessions on the downloads directory: what it makes of the
\* staging directory; a session.json that does not load is skipped
discoverPartialSessions ==
    /\ listing' = IF ~stagingDir THEN "none"
                  ELSE IF loadSessionMeta(sessionJson) # "nil" THEN "skipped"
                  ELSE sessionJson.State
    /\ UNCHANGED <<front, job, globalCancel, pauseRequested, currentSessionDir,
                   sctx, spos, sret, stagingDir, sessionJson, wrote, accepted>>
    /\ sessFrame

----------------------------------------------------------------------------
(* Retrying transport: httpReqWithRetry of download.go, one call *)

\* the words isRetryableError looks for in the text of an error
RetryWords == {"timeout", "tls", "connection reset"}

\* request URLs, by the retry words their text contains (a registry host or
\* a repository name may contain any of them)
Urls == {{}} \cup {{w} : w \in RetryWords}

StatusCodes == {200, 206, 404, 408, 429, 499, 500, 599, 600}

\* the errors client.Do returns: always a *url.Error around the cause
DoErrors == {"timeout", "connection reset", "connection refused", "temporary",
             "context canceled"}

NoDo == [kind |-> "none", code |-> 0, err |-> "none"]
doStatus(c) == [kind |-> "status", code |-> c, err |-> "none"]
doError(e)  == [kind |-> "error", code |-> 0, err |-> e]

isRetryableStatus(code) ==
    code = 429 \/ code = 408 \/ (code >= 500 /\ code <= 599)

\* err.Error() of the *url.Error: method, URL and the cause's text; here the
\* retry words that occur in it
errorText(e, u) ==
    u \cup (IF e \in {"timeout", "connection reset"} THEN {e} ELSE {})

\* isRetryableError: a net.Error that timed out; the *net.OpError assertion
\* never holds for a *url.Error; then the match on the error's text
isRetryableError(e, u) ==
    \/ e = "timeout"
    \/ errorText(e, u) \cap RetryWords # {}

\* attempts := max(1, retries+1)
attempts == max(1, retries + 1)

retryFrame ==
    UNCHANGED <<mgrVars, blobVars, zipVars, rerunVars, fetchVars, sessVars,
                indexVars, progressVars, sanitizeVars, lateVars, dmVars>>

\* what client.Do can return under the context c
doOutcomes(c) ==
    IF c = "canceled" THEN {doError("context canceled")}
    ELSE {doStatus(code) : code \in StatusCodes}
         \cup {doError(e) : e \in DoErrors \ {"context canceled"}}

\* one iteration of the loop: the request, then return, break or backoff
httpReqWithRetryAttempt ==
    /\ rtpos = "loop"
    /\ attempt < attempts
    /\ requests' = requests + 1
    /\ \E r \in doOutcomes(rctx) :
         /\ lastDo' = r
         /\ IF r.kind = "status"
            THEN IF isRetryableStatus(r.code) /\ attempt < attempts - 1
                 THEN rtpos' = "backoff" /\ UNCHANGED rtret
                 ELSE rtpos' = "returned" /\ rtret' = r
            ELSE IF ~isRetryableError(r.err, url) \/ attempt = attempts - 1
                 THEN rtpos' = "returned" /\ rtret' = r
                 ELSE rtpos' = "backoff" /\ UNCHANGED rtret
    /\ UNCHANGED <<retries, url, attempt, rctx>>
    /\ retryFrame

\* backoff(i, verbose): time.Sleep ends, whatever the context; i++
backoffDone ==
    /\ rtpos = "backoff"
    /\ attempt' = attempt + 1
    /\ rtpos' = "loop"
    /\ UNCHANGED <<retries, url, requests, rctx, lastDo, rtret>>
    /\ retryFrame

\* the caller's context is cancelled while the call is in progress
cancelRequestContext ==
    /\ rtpos \in {"loop", "backoff"}
    /\ rctx = "live"
    /\ rctx' = "canceled"
    /\ UNCHANGED <<retries, url, attempt, requests, rtpos, lastDo, rtret>>
    /\ retryFrame

----------------------------------------------------------------------------
(* Manifest resolution: run() of download.go, lines 170-265 and 310-324 *)

mtOCIIndex       == "application/vnd.oci.image.index.v1+json"
mtDockerIndex    == "application/vnd.docker.distribution.manifest.list.v2+json"
mtOCIManifest    == "application/vnd.oci.image.manifest.v1+json"
mtDockerManifest == "application/vnd.docker.distribution.manifest.v2+json"
MediaTypes == {mtOCIIndex, mtDockerIndex, mtOCIManifest, mtDockerManifest,
               "application/json"}

\* the hex part of a digest "sha256:<hex>", as the sequence of its characters
Hexes == {<<0>>, <<1>>, <<0, 1>>}
NoHex == <<>>

\* modelRef as parseModel returns it: name@sha256:<hex> or name:tag
digestRef(h) == [Reference |-> [scheme |-> "sha256:", rest |-> h],
                 ReferenceTag |-> "", IsDigest |-> TRUE]
tagRef(t)    == [Reference |-> [scheme |-> "", rest |-> t],
                 ReferenceTag |-> t, IsDigest |-> FALSE]

\* strings.ToLower on the strings that occur
toLower(str) ==
    CASE str = "Linux" -> "linux"
      [] str = "ARM64" -> "arm64"
      [] str = "Downloading" -> "downloading"
      [] OTHER -> str

\* strings.EqualFold
EqualFold(a, b) == toLower(a) = toLower(b)

\* string comparison, as sort.Strings uses it: a < b
RECURSIVE stringLess(_, _)
stringLess(a, b) ==
    IF b = <<>> THEN FALSE
    ELSE IF a = <<>> THEN TRUE
    ELSE IF Head(a) # Head(b) THEN Head(a) < Head(b)
    ELSE stringLess(Tail(a), Tail(b))

\* insertion of x into the sorted sequence ss
RECURSIVE insertSorted(_, _)
insertSorted(x, ss) ==
    IF ss = <<>> THEN <<x>>
    ELSE IF stringLess(Head(ss), x) THEN <<Head(ss)>> \o insertSorted(x, Tail(ss))
    ELSE <<x>> \o ss

\* sort.Strings
RECURSIVE sortStrings(_)
sortStringsNot(ss) == ss

sortStrings(ss) ==
    IF ss = <<>> THEN <<>> ELSE insertSorted(Head(ss), sortStrings(Tail(ss)))

\* lines 188-197: targetOS, targetArch and the digests of the entries that
\* match them, in index order
targetArch == platform[Len(platform)]

RECURSIVE candidatesOf(_)
candidatesOf(ms) ==
    IF ms = <<>> THEN <<>>
    ELSE IF EqualFold(Head(ms).OS, "linux") /\ EqualFold(Head(ms).Architecture, targetArch)
         THEN <<Head(ms).Digest>> \o candidatesOf(Tail(ms))
         ELSE candidatesOf(Tail(ms))

\* lines 310-317: manifestTail
manifestTail(r) ==
    IF r.IsDigest /\ r.Reference.scheme = "sha256:"
    THEN [scheme |-> "sha256-", rest |-> r.Reference.rest]
    ELSE r.Reference

indexFrame ==
    UNCHANGED <<mgrVars, blobVars, zipVars, rerunVars, fetchVars, sessVars,
                retryVars, progressVars, sanitizeVars, lateVars, dmVars>>

indexFail(why) ==
    /\ ipc' = "failed"
    /\ ierr' = why

\* lines 188-205: the platform entry is selected from the manifests ms
selectPlatform(ms) ==
    LET candidates == candidatesOf(ms) IN
    IF Len(candidates) = 0
    THEN indexFail("nomatch") /\ UNCHANGED chosen
    ELSE /\ chosen' = sortStrings(candidates)[1]
         /\ ipc' = "fetchChosen"
         /\ UNCHANGED ierr

\* lines 170-205 and 220-244: the request for ref.Reference and the switch
\* on its media type, up to the request for the chosen digest
runGetManifest ==
    /\ ipc = "start"
    /\ fetched' = Append(fetched, ref.Reference)
    /\ \/ indexFail("request") /\ UNCHANGED <<manifestType, chosen, doc>>
       \/ \E t \in MediaTypes, content \in {"manifest", "index", "junk"} :
            /\ manifestType' = t
            /\ CASE t \in {mtOCIManifest, mtDockerManifest} ->
                     /\ IF content = "junk" THEN indexFail("decode")
                        ELSE ipc' = "store" /\ UNCHANGED ierr
                     /\ UNCHANGED chosen
                 [] t \in {mtOCIIndex, mtDockerIndex} ->
                     IF content = "junk" THEN indexFail("decode") /\ UNCHANGED chosen
                     ELSE selectPlatform(IF content = "index" THEN idx ELSE <<>>)
                 [] OTHER ->
                     IF content = "manifest"
                     THEN ipc' = "store" /\ UNCHANGED <<ierr, chosen>>
                     ELSE IF content = "index" /\ Len(idx) > 0
                          THEN selectPlatform(idx)
                          ELSE indexFail("unsupported") /\ UNCHANGED chosen
            /\ doc' = "first"
    /\ UNCHANGED <<ref, platform, idx, chosenType, manifestName>>
    /\ indexFrame

\* lines 206-219 and 245-254: the request for the chosen digest. Its media
\* type is dropped (`manifestJSON, _, err =`), and in the index case the test
\* that follows reads manifestType, the type of the first response.
runGetChosen ==
    /\ ipc = "fetchChosen"
    /\ fetched' = Append(fetched, [scheme |-> "sha256:", rest |-> chosen])
    /\ \/ indexFail("request") /\ UNCHANGED <<chosenType, doc, ref>>
       \/ \E t \in MediaTypes, decodes \in BOOLEAN :
            /\ chosenType' = t
            /\ IF manifestType \in {mtOCIIndex, mtDockerIndex}
                  /\ manifestType # mtOCIManifest /\ manifestType # mtDockerManifest
               THEN indexFail("mediatype") /\ UNCHANGED <<doc, ref>>
               ELSE IF ~decodes
                    THEN indexFail("decode") /\ UNCHANGED <<doc, ref>>
                    ELSE /\ doc' = "chosen"
                         /\ ref' = IF ref.ReferenceTag = ""
                                   THEN [ref EXCEPT !.IsDigest = TRUE] ELSE ref
                         /\ ipc' = "store"
                         /\ UNCHANGED ierr
    /\ UNCHANGED <<platform, idx, manifestType, chosen, manifestName>>
    /\ indexFrame

\* lines 267-324: the staging directory, session.json, and the manifest
\* file written under manifestTail; the blob stage follows
runStoreManifest ==
    /\ ipc = "store"
    /\ \/ indexFail("write") /\ UNCHANGED manifestName
       \/ /\ manifestName' = manifestTail(ref)
          /\ ipc' = "stored"
          /\ UNCHANGED ierr
    /\ UNCHANGED <<ref, platform, idx, manifestType, chosenType, chosen, fetched,
                   doc>>
    /\ indexFrame

----------------------------------------------------------------------------
(* Progress tracker: progress.Write, Add and SetDone of download.go, called
   by the blob goroutines of one pull *)

Goroutines == 1..MaxConcurrency

NotAdding == [in |-> FALSE, newVal |-> 0]

\* the byte counts a call carries: a Write of one or two bytes, an Add of a
\* negative count (downloadBlob, line 627) or of a positive one
Counts == {-2, -1, 1, 2}

\* the clamp of Add and SetDone: to [0, total] when total > 0
clamped(v) == IF v < 0 THEN 0 ELSE IF total > 0 /\ v > total THEN total ELSE v

progressFrame ==
    UNCHANGED <<mgrVars, blobVars, zipVars, rerunVars, fetchVars, sessVars,
                retryVars, indexVars, sanitizeVars, lateVars, dmVars>>

\* Add, line 807 (and Write, which calls Add): newVal := atomic.AddInt64
progressAdd ==
    /\ calls < MaxCalls
    /\ \E g \in Goroutines, n \in Counts :
         /\ ~adding[g].in
         /\ done' = done + n
         /\ adding' = [adding EXCEPT ![g] = [in |-> TRUE, newVal |-> done + n]]
         /\ counted' = clamped(counted + n)
    /\ calls' = calls + 1
    /\ UNCHANGED total
    /\ progressFrame

\* Add, lines 808-812: the clamp, a separate atomic store
progressAddClamp ==
    /\ \E g \in Goroutines :
         /\ adding[g].in
         /\ done' = IF adding[g].newVal < 0 THEN 0
                    ELSE IF total > 0 /\ adding[g].newVal > total THEN total
                    ELSE done
         /\ adding' = [adding EXCEPT ![g] = NotAdding]
    /\ UNCHANGED <<total, calls, counted>>
    /\ progressFrame

\* SetDone(n): n clamped, then one atomic store
progressSetDone ==
    /\ calls < MaxCalls
    /\ \E n \in -1..(MaxTotal + 1) :
         /\ done' = clamped(n)
         /\ counted' = clamped(n)
    /\ calls' = calls + 1
    /\ UNCHANGED <<total, adding>>
    /\ progressFrame

----------------------------------------------------------------------------
(* Progress accounting of one blob: run() lines 336-362 and the progress
   calls of downloadBlob, one goroutine *)

\* SetDone(n) on a tracker of total t
setDone(t, n) == IF n < 0 THEN 0 ELSE IF t > 0 /\ n > t THEN t ELSE n

accountFrame ==
    UNCHANGED <<mgrVars, blob, zipVars, rerunVars, fetchVars, sessVars,
                retryVars, indexVars, sanitizeVars, lateVars, dmVars, adding, calls, counted>>

\* run, lines 336-376: the total is the declared size if positive, the bytes
\* on disk are set as done, and downloadBlob is called
accountFetchBlob ==
    /\ ret = "none"
    /\ total' = IF declared > 0 THEN declared ELSE 0
    /\ done' = setDone(IF declared > 0 THEN declared ELSE 0,
                       existingBytesForBlob(final, part, declared))
    /\ downloadBlobCall(declared)
    /\ accountFrame

\* downloadBlob, lines 575-631, with p.Add(-start) of the range downgrade
accountResponse ==
    /\ blobResponse
    /\ done' = IF bpc' = "copy" /\ start > 0 /\ start' = 0
               THEN clamped(done - start) ELSE done
    /\ UNCHANGED total
    /\ accountFrame

\* io.Copy, line 637: the byte goes to the file, the hasher and p.Write
accountCopy ==
    /\ blobCopy
    /\ done' = clamped(done + 1)
    /\ UNCHANGED total
    /\ accountFrame

accountCopyFail ==
    /\ blobCopyFail
    /\ UNCHANGED <<total, done>>
    /\ accountFrame

accountFinalize ==
    /\ blobFinalize
    /\ UNCHANGED <<total, done>>
    /\ accountFrame

----------------------------------------------------------------------------
(* Progress accounting of a parallel fetch: run() lines 336-385 with the
   progress calls of the downloadBlob goroutines, file contents reduced to
   their lengths *)

\* a file of k bytes
ofLength(k) == [j \in 1..k |-> 0]
finalOf(it) == IF it.final THEN File(ofLength(it.size)) ELSE Absent
partOf(it) == IF it.part < 0 THEN Absent ELSE File(ofLength(it.part))

\* computeExistingBytes, lines 676-682
RECURSIVE computeExistingBytes(_)
computeExistingBytes(its) ==
    IF its = <<>> THEN 0
    ELSE existingBytesForBlob(finalOf(Head(its)), partOf(Head(its)), Head(its).size)
         + computeExistingBytes(Tail(its))

\* run, lines 337-343: the sum of the positive sizes
RECURSIVE totalOf(_)
totalOf(its) ==
    IF its = <<>> THEN 0
    ELSE (IF Head(its).size > 0 THEN Head(its).size ELSE 0) + totalOf(Tail(its))

NewWorker == [pc |-> "new", start |-> 0, left |-> 0, newVal |-> 0, got |-> "none"]

tallyFrame ==
    UNCHANGED <<mgrVars, blobVars, zipVars, rerunVars, fetchVars, sessVars,
                retryVars, indexVars, sanitizeVars, dmVars, writerVars,
                categorizeVars, archVars, adding, calls, counted>>

\* run, lines 336-362: the total, then SetDone(computeExistingBytes)
tallyBegin ==
    /\ tPc = "init"
    /\ total' = totalOf(tItems)
    /\ done' = setDone(totalOf(tItems), computeExistingBytes(tItems))
    /\ tPc' = "fetch"
    /\ UNCHANGED <<tItems, tWorkers>>
    /\ tallyFrame

\* run, lines 364-376, and downloadBlob, lines 546-573: a goroutine is
\* started (the semaphore only delays it: every schedule it admits is one of
\* those taken here, where any goroutine may start at any time); a final file of the expected size stands, a
\* .part of the expected size with the right hash is renamed, else the
\* request starts at the size of the .part
tallyStart(i) ==
    /\ tPc = "fetch"
    /\ tWorkers[i].pc = "new"
    /\ LET it == tItems[i]
       IN  IF it.final
           THEN /\ tWorkers' = [tWorkers EXCEPT ![i].pc = "done"]
                /\ UNCHANGED tItems
           ELSE IF it.part = it.size
           THEN /\ tWorkers' = [tWorkers EXCEPT ![i].pc = "done"]
                /\ tItems' = [tItems EXCEPT ![i].final = TRUE, ![i].part = -1]
           ELSE /\ tWorkers' = [tWorkers EXCEPT ![i].pc = "request",
                                   ![i].start = startOffset(partOf(it), it.size)]
                /\ UNCHANGED tItems
    /\ UNCHANGED <<total, done, tPc>>
    /\ tallyFrame

\* p.Add(-start), line 628
undoneNothing(s) == 0
undoneBytes(s) == 0 - s

\* downloadBlob, lines 591-631: 206 with the rest of the blob, 200 with the
\* whole blob (after a Range request the .part is truncated and the bytes
\* counted for it are taken back: the AddInt64 of Add), or a failure
tallyAnswer(i, status) ==
    /\ tWorkers[i].pc = "request"
    /\ LET w == tWorkers[i]
           it == tItems[i]
       IN  IF status = 206
           THEN /\ tWorkers' = [tWorkers EXCEPT ![i].pc = "copy",
                                   ![i].left = it.size - w.start, ![i].got = "range"]
                /\ tItems' = [tItems EXCEPT ![i].part = w.start]
                /\ UNCHANGED done
           ELSE IF status = 200 /\ w.start > 0
           THEN /\ tWorkers' = [tWorkers EXCEPT ![i].pc = "undo", ![i].start = 0,
                                   ![i].left = it.size, ![i].got = "downgrade",
                                   ![i].newVal = done + undoneBytes(w.start)]
                /\ tItems' = [tItems EXCEPT ![i].part = 0]
                /\ done' = done + undoneBytes(w.start)
           ELSE IF status = 200
           THEN /\ tWorkers' = [tWorkers EXCEPT ![i].pc = "copy",
                                   ![i].left = it.size, ![i].got = "full"]
                /\ tItems' = [tItems EXCEPT ![i].part = 0]
                /\ UNCHANGED done
           ELSE /\ tWorkers' = [tWorkers EXCEPT ![i].pc = "failed"]
                /\ UNCHANGED <<tItems, done>>
    /\ UNCHANGED <<total, tPc>>
    /\ tallyFrame

\* Add, lines 808-812: the clamp, a separate atomic store
tallyClamp(i) ==
    /\ tWorkers[i].pc \in {"undo", "added"}
    /\ LET v == tWorkers[i].newVal
       IN  done' = IF v < 0 THEN 0 ELSE IF total > 0 /\ v > total THEN total ELSE done
    /\ tWorkers' = [tWorkers EXCEPT ![i].pc = "copy"]
    /\ UNCHANGED <<total, tItems, tPc>>
    /\ tallyFrame

\* io.Copy, line 637: one byte to the .part file and to the progress
\* tracker (Write calls Add: the AddInt64)
tallyCopy(i) ==
    /\ tWorkers[i].pc = "copy"
    /\ tWorkers[i].left > 0
    /\ tItems' = [tItems EXCEPT ![i].part = @ + 1]
    /\ done' = done + 1
    /\ tWorkers' = [tWorkers EXCEPT ![i].pc = "added", ![i].left = @ - 1,
                       ![i].newVal = done + 1]
    /\ UNCHANGED <<total, tPc>>
    /\ tallyFrame

\* io.Copy returns an error, line 638
tallyCopyFail(i) ==
    /\ tWorkers[i].pc = "copy"
    /\ tWorkers' = [tWorkers EXCEPT ![i].pc = "failed"]
    /\ UNCHANGED <<total, done, tItems, tPc>>
    /\ tallyFrame

\* downloadBlob, lines 641-650: the body is copied, the digest is the
\* blob's, the .part becomes the final file
tallyInstall(i) ==
    /\ tWorkers[i].pc = "copy"
    /\ tWorkers[i].left = 0
    /\ tWorkers' = [tWorkers EXCEPT ![i].pc = "done"]
    /\ tItems' = [tItems EXCEPT ![i].final = TRUE, ![i].part = -1]
    /\ UNCHANGED <<total, done, tPc>>
    /\ tallyFrame

\* run, lines 377-385: every goroutine has returned; the fetch has succeeded
\* if none has sent an error
tallyWait ==
    /\ tPc = "fetch"
    /\ \A i \in 1..Len(tWorkers) : tWorkers[i].pc \in {"done", "failed"}
    /\ tPc' = IF \E i \in 1..Len(tWorkers) : tWorkers[i].pc = "failed"
              THEN "failed" ELSE "fetched"
    /\ UNCHANGED <<total, done, tItems, tWorkers>>
    /\ tallyFrame

----------------------------------------------------------------------------
(* SanitizeModelName (sanitizeModelName in the web server) *)

\* the characters of model names: a letter in both cases, the five the
\* sanitizer replaces, the dash, and white space (a blank and a tab)
Runes == {"a", "A", "/", ":", "@", "\\", " ", "-", "\t"}
Names == UNION {[1..n -> Runes] : n \in 0..MaxName}

WhiteSpace == {" ", "\t"}

\* strings.Trim(str, cutset): leading and trailing runes of cutset removed
RECURSIVE trimLeft(_, _)
trimLeft(str, cutset) ==
    IF str # <<>> /\ Head(str) \in cutset THEN trimLeft(Tail(str), cutset) ELSE str

RECURSIVE trimRight(_, _)
trimRight(str, cutset) ==
    IF str # <<>> /\ str[Len(str)] \in cutset
    THEN trimRight(SubSeq(str, 1, Len(str) - 1), cutset) ELSE str

TrimNothing(str, cutset) == str

Trim(str, cutset) == trimRight(trimLeft(str, cutset), cutset)

\* strings.TrimSpace
TrimSpace(str) == Trim(str, WhiteSpace)

\* the function given to strings.Map
replaceRune(r) == IF r \in {"/", ":", "@", "\\", " "} THEN "-" ELSE r

\* strings.ToLower, rune by rune
lowerRune(r) == IF r = "A" THEN "a" ELSE r

literalModel == <<"m", "o", "d", "e", "l">>

SanitizeModelName(model) ==
    LET s1 == TrimSpace(model) IN
    IF s1 = <<>> THEN literalModel
    ELSE LET s2 == [i \in 1..Len(s1) |-> replaceRune(s1[i])]
             s3 == Trim(s2, {"-"})
             s4 == [i \in 1..Len(s3) |-> lowerRune(s3[i])]
         IN IF s4 = <<>> THEN literalModel ELSE s4

\* a call of the sanitizer
sanitizeCall ==
    /\ ~sanitizeCalled
    /\ sanitized' = SanitizeModelName(modelArg)
    /\ sanitizeCalled' = TRUE
    /\ UNCHANGED modelArg
    /\ UNCHANGED <<mgrVars, blobVars, zipVars, rerunVars, fetchVars, sessVars,
                   retryVars, indexVars, progressVars, lateVars, dmVars>>

----------------------------------------------------------------------------
(* The generic DownloadManager (download_manager.go) *)

StatusQueued == "queued"
StatusActive == "active"
StatusPaused == "paused"
StatusCompleted == "completed"
StatusError == "error"

dmFrame ==
    UNCHANGED <<mgrVars, blobVars, zipVars, rerunVars, fetchVars, sessVars,
                retryVars, indexVars, progressVars, sanitizeVars, lateVars, dmShut>>

\* one more call of a method of the manager
dmCall ==
    /\ dmCalls < MaxManagerCalls
    /\ dmCalls' = dmCalls + 1

\* the ids of the structs made so far; generateID never repeats one
dmIds == 1..Len(dmDownloads)

removeFromSlice(slice, item) == SelectSeq(slice, LAMBDA x : x # item)

containsString(slice, item) == \E i \in 1..Len(slice) : slice[i] = item

\* the goroutines of a bag after each has been changed by f
RECURSIVE copiesSum(_, _)
copiesSum(wk, S) ==
    IF S = {} THEN 0
    ELSE LET g == CHOOSE x \in S : TRUE IN wk[g] + copiesSum(wk, S \ {g})

mapWorkers(wk, f(_)) ==
    [h \in {f(g) : g \in DOMAIN wk} |->
        copiesSum(wk, {g \in DOMAIN wk : f(g) = h})]

\* download.cancel(): the goroutines that hold the download's present context
\* see it canceled
cancelDownload(wk, id) ==
    mapWorkers(wk, LAMBDA g :
        IF g.id = id /\ g.cur THEN [g EXCEPT !.canceled = TRUE] ELSE g)

\* context.WithCancel(dm.ctx) stored in the download: the goroutines of the
\* download hold a context that is no longer the download's
renewContext(wk, id) ==
    mapWorkers(wk, LAMBDA g : IF g.id = id THEN [g EXCEPT !.cur = FALSE] ELSE g)

AddDownload(n) ==
    /\ Len(dmDownloads) < MaxDownloads
    /\ dmPending < MaxPending
    /\ dmDownloads' = Append(dmDownloads,
           [Status |-> StatusQueued, Progress |-> 0, Retries |-> 0,
            MaxRetries |-> n, Error |-> "", inMap |-> TRUE,
            ctxCanceled |-> dmShut # "none"])
    /\ dmQueue' = Append(dmQueue, Len(dmDownloads) + 1)
    /\ dmPending' = dmPending + 1
    /\ UNCHANGED <<dmRunning, dmMaxConcurrent, dmWorkers>>
    /\ dmCall
    /\ dmFrame

RemoveDownload(id) ==
    /\ id \in dmIds
    /\ dmDownloads[id].inMap
    /\ dmWorkers' = IF dmDownloads[id].Status = StatusActive
                    THEN cancelDownload(dmWorkers, id) ELSE dmWorkers
    /\ dmQueue' = removeFromSlice(dmQueue, id)
    /\ dmRunning' = removeFromSlice(dmRunning, id)
    /\ dmDownloads' = [dmDownloads EXCEPT
           ![id].inMap = FALSE,
           ![id].ctxCanceled = @ \/ dmDownloads[id].Status = StatusActive]
    /\ UNCHANGED <<dmMaxConcurrent, dmPending>>
    /\ dmCall
    /\ dmFrame

\* the body of the pause of one download, shared by PauseDownload and PauseAll
pauseOne(st, id) ==
    [downloads |-> [st.downloads EXCEPT
         ![id].Status = StatusPaused,
         ![id].ctxCanceled = @ \/ st.downloads[id].Status = StatusActive],
     workers |-> IF st.downloads[id].Status = StatusActive
                 THEN cancelDownload(st.workers, id) ELSE st.workers]

PauseDownload(id) ==
    /\ id \in dmIds
    /\ dmDownloads[id].inMap
    /\ dmDownloads[id].Status \in {StatusActive, StatusQueued}
    /\ LET r == pauseOne([downloads |-> dmDownloads, workers |-> dmWorkers], id) IN
         /\ dmDownloads' = r.downloads
         /\ dmWorkers' = r.workers
    /\ UNCHANGED <<dmQueue, dmRunning, dmMaxConcurrent, dmPending>>
    /\ dmCall
    /\ dmFrame

\* the body of the resume of one download, shared by ResumeDownload and ResumeAll
resumeOne(st, id) ==
    [downloads |-> [st.downloads EXCEPT
         ![id].Status = StatusQueued, ![id].ctxCanceled = (dmShut # "none")],
     workers |-> renewContext(st.workers, id),
     queue |-> IF containsString(st.queue, id) THEN st.queue
               ELSE Append(st.queue, id)]

ResumeDownload(id) ==
    /\ id \in dmIds
    /\ dmDownloads[id].inMap
    /\ dmDownloads[id].Status = StatusPaused
    /\ dmPending < MaxPending
    /\ LET r == resumeOne([downloads |-> dmDownloads, workers |-> dmWorkers,
                           queue |-> dmQueue], id) IN
         /\ dmDownloads' = r.downloads
         /\ dmWorkers' = r.workers
         /\ dmQueue' = r.queue
    /\ dmPending' = dmPending + 1
    /\ UNCHANGED <<dmRunning, dmMaxConcurrent>>
    /\ dmCall
    /\ dmFrame

\* the orders in which a range over the map can visit the ids of a set
RECURSIVE mapOrders(_)
mapOrders(S) ==
    IF S = {} THEN {<<>>}
    ELSE UNION {{<<x>> \o o : o \in mapOrders(S \ {x})} : x \in S}

RECURSIVE pauseEach(_, _)
pauseEach(st, order) ==
    IF order = <<>> THEN st ELSE pauseEach(pauseOne(st, Head(order)), Tail(order))

PauseAll ==
    /\ \E id \in dmIds : dmDownloads[id].inMap
    /\ LET S == {id \in dmIds : /\ dmDownloads[id].inMap
                                /\ dmDownloads[id].Status \in {StatusActive, StatusQueued}}
           r == pauseEach([downloads |-> dmDownloads, workers |-> dmWorkers],
                          CHOOSE o \in mapOrders(S) : TRUE)
       IN /\ dmDownloads' = r.downloads
          /\ dmWorkers' = r.workers
    /\ UNCHANGED <<dmQueue, dmRunning, dmMaxConcurrent, dmPending>>
    /\ dmCall
    /\ dmFrame

RECURSIVE resumeEach(_, _)
resumeEach(st, order) ==
    IF order = <<>> THEN st ELSE resumeEach(resumeOne(st, Head(order)), Tail(order))

ResumeAll ==
    /\ \E id \in dmIds : dmDownloads[id].inMap
    /\ dmPending < MaxPending
    /\ LET S == {id \in dmIds : /\ dmDownloads[id].inMap
                                /\ dmDownloads[id].Status = StatusPaused}
       IN \E o \in mapOrders(S) :
            LET r == resumeEach([downloads |-> dmDownloads, workers |-> dmWorkers,
                                 queue |-> dmQueue], o) IN
              /\ dmDownloads' = r.downloads
              /\ dmWorkers' = r.workers
              /\ dmQueue' = r.queue
    /\ dmPending' = dmPending + 1
    /\ UNCHANGED <<dmRunning, dmMaxConcurrent>>
    /\ dmCall
    /\ dmFrame

\* the loop of processQueue, from the head of the queue
RECURSIVE processLoop(_)
processLoop(st) ==
    IF st.queue # <<>> /\ Len(st.running) < dmMaxConcurrent
    THEN LET id == Head(st.queue)
             rest == [st EXCEPT !.queue = Tail(st.queue)]
         IN IF ~st.downloads[id].inMap \/ st.downloads[id].Status # StatusQueued
            THEN processLoop(rest)
            ELSE processLoop([rest EXCEPT
                     !.downloads[id].Status = StatusActive,
                     !.running = Append(st.running, id),
                     !.workers = st.workers (+) SetToBag(
                         {[id |-> id, pos |-> "start", cur |-> FALSE,
                           canceled |-> FALSE, done |-> 0]})])
    ELSE st

processQueue ==
    /\ dmPending > 0
    /\ LET r == processLoop([downloads |-> dmDownloads, queue |-> dmQueue,
                             running |-> dmRunning, workers |-> dmWorkers]) IN
         /\ BagCardinality(r.workers) <= MaxWorkers
         /\ dmDownloads' = r.downloads
         /\ dmQueue' = r.queue
         /\ dmRunning' = r.running
         /\ dmWorkers' = r.workers
    /\ dmPending' = dmPending - 1
    /\ UNCHANGED <<dmMaxConcurrent, dmCalls>>
    /\ dmFrame

withoutWorker(g) == dmWorkers (-) SetToBag({g})

\* downloadWorker up to the call of downloadFile: the download is looked up,
\* executeDownload makes the tracker and reads the download's context
downloadWorkerStart(g) ==
    /\ BagIn(g, dmWorkers)
    /\ g.pos = "start"
    /\ LET d == dmDownloads[g.id] IN
         dmWorkers' = IF ~d.inMap THEN withoutWorker(g)
                      ELSE withoutWorker(g) (+) SetToBag(
                               {[id |-> g.id, pos |-> "executing",
                                 cur |-> TRUE, canceled |-> d.ctxCanceled,
                                 done |-> d.Progress]})
    /\ UNCHANGED <<dmDownloads, dmQueue, dmRunning, dmMaxConcurrent, dmPending,
                   dmCalls>>
    /\ dmFrame

\* downloadWorker, line 416: no attempt is left
retriesExhaustedLate(r, m) == r > m
retriesExhausted(r, m) == r >= m

\* downloadFile returns after n more bytes, with an error or without, and
\* downloadWorker records the outcome; a canceled request fails
downloadWorkerFinish(g, n, bad) ==
    /\ BagIn(g, dmWorkers)
    /\ g.pos = "executing"
    /\ g.done + n <= MaxProgress
    /\ g.canceled => bad
    /\ dmPending < MaxPending
    /\ LET id == g.id
           d == dmDownloads[id]
       IN /\ dmRunning' = removeFromSlice(dmRunning, id)
          /\ IF bad
             THEN IF retriesExhausted(d.Retries + 1, d.MaxRetries)
                  THEN /\ dmDownloads' = [dmDownloads EXCEPT
                              ![id].Progress = g.done + n,
                              ![id].Retries = d.Retries + 1,
                              ![id].Status = StatusError,
                              ![id].Error = "download failed"]
                       /\ UNCHANGED dmQueue
                  ELSE /\ dmDownloads' = [dmDownloads EXCEPT
                              ![id].Progress = g.done + n,
                              ![id].Retries = d.Retries + 1,
                              ![id].Status = StatusQueued]
                       /\ dmQueue' = Append(dmQueue, id)
             ELSE /\ dmDownloads' = [dmDownloads EXCEPT
                         ![id].Progress = g.done + n,
                         ![id].Status = StatusCompleted]
                  /\ UNCHANGED dmQueue
    /\ dmWorkers' = withoutWorker(g)
    /\ dmPending' = dmPending + 1
    /\ UNCHANGED <<dmMaxConcurrent, dmCalls>>
    /\ dmFrame

\* Shutdown up to wg.Wait: dm.cancel() cancels the context of every download
\* and of every goroutine, all made from dm.ctx
Shutdown ==
    /\ dmShut = "none"
    /\ dmShut' = "waiting"
    /\ dmDownloads' = [id \in dmIds |-> [dmDownloads[id] EXCEPT !.ctxCanceled = TRUE]]
    /\ dmWorkers' = mapWorkers(dmWorkers, LAMBDA g :
           IF g.pos = "executing" THEN [g EXCEPT !.canceled = TRUE] ELSE g)
    /\ UNCHANGED <<dmQueue, dmRunning, dmMaxConcurrent, dmPending, dmCalls>>
    /\ UNCHANGED <<mgrVars, blobVars, zipVars, rerunVars, fetchVars, sessVars,
                   retryVars, indexVars, progressVars, sanitizeVars, lateVars>>

\* wg.Wait returns when every goroutine added to the group has returned
ShutdownReturn ==
    /\ dmShut = "waiting"
    /\ dmWorkers = EmptyBag
    /\ dmShut' = "returned"
    /\ UNCHANGED <<dmDownloads, dmQueue, dmRunning, dmMaxConcurrent, dmWorkers,
                   dmPending, dmCalls>>
    /\ UNCHANGED <<mgrVars, blobVars, zipVars, rerunVars, fetchVars, sessVars,
                   retryVars, indexVars, progressVars, sanitizeVars, lateVars>>

----------------------------------------------------------------------------
(* The goroutines executing run(), by staging directory: web server and queue manager *)

Free == [dir |-> <<>>, pos |-> "free", canceled |-> FALSE]
Models == 1..MaxModels
PullerSlots == 1..MaxPullers
freeSlots == {g \in PullerSlots : pullers[g].pos = "free"}

\* /download, line 1349: filepath.Join(outputDir, sanitizeModelName(model) + ".staging")
webStaging(m) == <<"web", m>>

\* downloadModel, main.go line 287: <Sanitized>-<ID>.staging
queueStaging(m, id) == <<"queue", m, id>>

writerFrame ==
    UNCHANGED <<mgrVars, blobVars, zipVars, rerunVars, fetchVars, sessVars,
                retryVars, indexVars, progressVars, sanitizeVars, dmVars, tallyVars,
                categorizeVars, archVars, entry>>

\* beginDownloadSession: a new context whose cancel replaces globalCancel, and
\* a new goroutine that executes run(ctx, opt); nothing is asked of the
\* goroutine started before
beginSessionIn(g, d) ==
    /\ pullers' = [pullers EXCEPT ![g] = [dir |-> d, pos |-> "started", canceled |-> FALSE]]
    /\ cancelSlot' = g

\* POST /download: the options are built from the form and the session begins
postDownload(m) ==
    /\ entry = "web"
    /\ \E g \in freeSlots : beginSessionIn(g, webStaging(m))
    /\ UNCHANGED <<stagings, qTasks, qWorker>>
    /\ writerFrame

\* POST /resume: 404 unless the session's metadata loads from the staging
\* directory; then the status is set to "downloading" and the session begins
postResume(m) ==
    /\ entry = "web"
    /\ webStaging(m) \in stagings
    /\ \E g \in freeSlots : beginSessionIn(g, webStaging(m))
    /\ UNCHANGED <<stagings, qTasks, qWorker>>
    /\ writerFrame

\* POST /pause and POST /cancel: globalCancel(), if it is not nil, cancels the
\* context of the goroutine started last
postStop ==
    /\ entry = "web"
    /\ cancelSlot # 0
    /\ pullers' = [pullers EXCEPT ![cancelSlot].canceled = TRUE]
    /\ UNCHANGED <<cancelSlot, stagings, qTasks, qWorker>>
    /\ writerFrame

\* run() has written session.json and reaches the blob stage: a worker opens
\* blobs/sha256-<hex>.part and copies the response body into it
pullWrite(g) ==
    /\ pullers[g].pos = "started"
    /\ ~pullers[g].canceled
    /\ pullers' = [pullers EXCEPT ![g].pos = "writing"]
    /\ stagings' = stagings \cup {pullers[g].dir}
    /\ UNCHANGED <<cancelSlot, qTasks, qWorker>>
    /\ writerFrame

\* run() can return nil only from the blob stage on, under a live context;
\* it then removes the staging directory
pullReturns(g, ok) ==
    /\ pullers[g].pos # "free"
    /\ ok => pullers[g].pos = "writing" /\ ~pullers[g].canceled
    /\ stagings' = IF ok THEN stagings \ {pullers[g].dir} ELSE stagings

\* run() returns in the web server's goroutine, which then sets globalCancel
\* to nil, whichever session holds it
sessionReturn(g, ok) ==
    /\ entry = "web"
    /\ pullReturns(g, ok)
    /\ pullers' = [pullers EXCEPT ![g] = Free]
    /\ cancelSlot' = 0
    /\ UNCHANGED <<qTasks, qWorker>>
    /\ writerFrame

\* Enqueue, main.go: a task with a new ID in state queued
queueEnqueue(m) ==
    /\ entry = "queue"
    /\ Len(qTasks) < MaxEnqueued
    /\ qTasks' = Append(qTasks, [model |-> m, State |-> "queued"])
    /\ UNCHANGED <<pullers, cancelSlot, stagings, qWorker>>
    /\ writerFrame

\* nextQueuedTaskLocked: the first task in state queued, 0 for nil
nextQueued ==
    LET q == {i \in 1..Len(qTasks) : qTasks[i].State = "queued"}
    IN  IF q = {} THEN 0 ELSE CHOOSE i \in q : \A j \in q : i <= j

\* runQueue, the one goroutine main starts: with no pull in progress it takes
\* the next queued task and calls downloadModel, which calls run()
queuePick ==
    /\ entry = "queue"
    /\ qWorker = 0
    /\ nextQueued # 0
    /\ \E g \in freeSlots :
         /\ pullers' = [pullers EXCEPT ![g] =
                [dir |-> queueStaging(qTasks[nextQueued].model, nextQueued),
                 pos |-> "started", canceled |-> FALSE]]
         /\ qWorker' = g
    /\ qTasks' = [qTasks EXCEPT ![nextQueued].State = "downloading"]
    /\ UNCHANGED <<cancelSlot, stagings>>
    /\ writerFrame

\* the task whose pull occupies slot g
taskOfSlot(g) == pullers[g].dir[3]

\* performAction: pause and cancel of a downloading task cancel its context;
\* resume only sets the state back to queued
queueAction(i, a) ==
    /\ entry = "queue"
    /\ i \in 1..Len(qTasks)
    /\ LET st == qTasks[i].State
           to == CASE a = "pause" /\ st \in {"downloading", "queued"} -> "paused"
                   [] a = "resume" /\ st \in {"paused", "error", "canceled"} -> "queued"
                   [] a = "cancel" /\ st \in {"downloading", "queued", "paused"} -> "canceled"
                   [] OTHER -> st
       IN  /\ to # st
           /\ qTasks' = [qTasks EXCEPT ![i].State = to]
           /\ pullers' = IF st = "downloading" /\ qWorker # 0
                         THEN [pullers EXCEPT ![qWorker].canceled = TRUE]
                         ELSE pullers
    /\ UNCHANGED <<cancelSlot, stagings, qWorker>>
    /\ writerFrame

\* downloadModel returns to runQueue, which records the outcome unless the
\* task was paused or canceled meanwhile, and loops
queueReturn(ok) ==
    /\ entry = "queue"
    /\ qWorker # 0
    /\ pullReturns(qWorker, ok)
    /\ qTasks' = [qTasks EXCEPT ![taskOfSlot(qWorker)].State =
           IF @ \in {"paused", "canceled"} THEN @
           ELSE IF ok THEN "done" ELSE "error"]
    /\ pullers' = [pullers EXCEPT ![qWorker] = Free]
    /\ qWorker' = 0
    /\ UNCHANGED cancelSlot
    /\ writerFrame

----------------------------------------------------------------------------
(* The partial sessions shown on the index page: DiscoverPartialSessions and
   CategorizeSessions (discoverPartialSessions and categorizeSessions in the
   web server) *)

SessionStates == {"downloading", "Downloading", "paused", "error", "", "done"}

\* what os.ReadDir can list in the output directory: a plain file, a
\* directory without the .staging suffix, a staging directory whose
\* session.json does not load, and a staging directory with its metadata
DirEntries ==
    [kind : {"file", "directory", "unreadable"}, State : {""}, LastUpdated : {0}]
    \cup [kind : {"session"}, State : SessionStates, LastUpdated : 1..MaxSessions]

categorizeFrame ==
    UNCHANGED <<mgrVars, blobVars, zipVars, rerunVars, fetchVars, sessVars,
                retryVars, indexVars, progressVars, sanitizeVars, dmVars,
                writerVars, tallyVars, archVars>>

\* DiscoverPartialSessions: the staging directories whose metadata loads, in
\* the order of the directory; dir is the index of the entry
RECURSIVE discoverFrom(_, _)
discoverFrom(entries, i) ==
    IF i > Len(entries) THEN <<>>
    ELSE IF entries[i].kind # "session" THEN discoverFrom(entries, i + 1)
    ELSE <<[dir |-> i, State |-> entries[i].State,
            LastUpdated |-> entries[i].LastUpdated]>> \o discoverFrom(entries, i + 1)

DiscoverPartialSessions ==
    /\ catPc = "start"
    /\ metas' = discoverFrom(outputDir, 1)
    /\ catPc' = "discovered"
    /\ UNCHANGED <<outputDir, catRunning, catPaused, catErrored>>
    /\ categorizeFrame

exchange(s, i, j) == [s EXCEPT ![i] = s[j], ![j] = s[i]]

\* CategorizeSessions, lines 146-152: the inner loop over j
RECURSIVE newestInner(_, _, _)
newestInner(s, i, j) ==
    IF j > Len(s) THEN s
    ELSE newestInner(IF s[i].LastUpdated < s[j].LastUpdated THEN exchange(s, i, j) ELSE s,
                     i, j + 1)

\* CategorizeSessions, lines 146-152: the outer loop over i
RECURSIVE newestFirst(_, _)
newestFirst(s, i) ==
    IF i >= Len(s) THEN s ELSE newestFirst(newestInner(s, i, i + 1), i + 1)

\* the case a session falls under, lines 156-168
categoryOf(meta) ==
    CASE toLower(meta.State) = "downloading" -> "running"
      [] toLower(meta.State) = "paused" -> "paused"
      [] toLower(meta.State) = "error" -> "errored"
      [] OTHER -> "paused"

viewsOf(s, cat) == SelectSeq(s, LAMBDA meta : categoryOf(meta) = cat)

\* CategorizeSessions: running is the first session found downloading, if
\* any (here a sequence of at most one view)
CategorizeSessions ==
    /\ catPc = "discovered"
    /\ LET sorted == newestFirst(metas, 1)
           found == viewsOf(sorted, "running")
       IN  /\ catRunning' = IF found = <<>> THEN <<>> ELSE <<Head(found)>>
           /\ catPaused' = viewsOf(sorted, "paused")
           /\ catErrored' = viewsOf(sorted, "errored")
    /\ catPc' = "categorized"
    /\ UNCHANGED <<outputDir, metas>>
    /\ categorizeFrame

----------------------------------------------------------------------------
(* The default platform: archFromGo and its use in main *)

ArchRunes == {"a", "m", "d", "r", "6", "4", "3", "8"}
amd64 == <<"a", "m", "d", "6", "4">>
arm64 == <<"a", "r", "m", "6", "4">>

archFromGoX86(arch) ==
    CASE arch = amd64 -> <<"x", "8", "6">>
      [] arch = arm64 -> arm64
      [] OTHER -> arch

archFromGo(arch) ==
    CASE arch = amd64 -> amd64
      [] arch = arm64 -> arm64
      [] OTHER -> arch

\* fmt.Sprintf("linux/%s", archFromGo(runtime.GOARCH))
linuxSlash(arch) == <<"l", "i", "n", "u", "x", "/">> \o arch

setDefaultPlatform ==
    /\ defaultPlatform = <<>>
    /\ defaultPlatform' = linuxSlash(archFromGo(goarch))
    /\ UNCHANGED goarch
    /\ UNCHANGED <<mgrVars, blobVars, zipVars, rerunVars, fetchVars, sessVars,
                   retryVars, indexVars, progressVars, sanitizeVars, dmVars,
                   writerVars, tallyVars, categorizeVars>>

----------------------------------------------------------------------------
(* Archive packager: zipDir of download.go, and handleZip of main.go *)

NoFile == [exists |-> FALSE, entries |-> <<>>, closed |-> FALSE]

\* the name zipDir gives entry i: a directory's name ends with "/"
zipName(i) == [path |-> i, slash |-> tree[i] = "dir"]

\* the archive of the whole tree, central directory written
fullArchive ==
    [exists |-> TRUE, entries |-> [i \in 1..Len(tree) |-> zipName(i)],
     closed |-> TRUE]

\* zipDir, lines 708-717: os.Create(outZip) creates or truncates the file at
\* the output path itself and the zip writer is put on it
zipDirCreate ==
    /\ zpc = "idle"
    /\ \E ok \in BOOLEAN :
         IF ok
         THEN /\ outZip' = [exists |-> TRUE, entries |-> <<>>, closed |-> FALSE]
              /\ zpc' = "walk"
              /\ zidx' = 1
         ELSE UNCHANGED <<outZip, zpc, zidx>>
    /\ UNCHANGED <<tree, served, mgrVars, blobVars, auxVars>>

\* zipDir, lines 719-761: the walk callback writes one entry; on an error
\* the walk stops, and the deferred zw.Close and out.Close run
zipDirEntry ==
    /\ zpc = "walk"
    /\ zidx <= Len(tree)
    /\ \E ok \in BOOLEAN :
         IF ok
         THEN /\ outZip' = [outZip EXCEPT !.entries = Append(@, zipName(zidx))]
              /\ zidx' = zidx + 1
              /\ UNCHANGED zpc
         ELSE /\ outZip' = [outZip EXCEPT !.closed = TRUE]
              /\ zpc' = "idle"
              /\ zidx' = 0
    /\ UNCHANGED <<tree, served, mgrVars, blobVars, auxVars>>

\* zipDir, lines 714-717 and 761: the walk is over; the deferred zw.Close
\* writes the central directory (its error is dropped) and zipDir returns nil
zipDirReturn ==
    /\ zpc = "walk"
    /\ zidx > Len(tree)
    /\ \E closeOk \in BOOLEAN : outZip' = [outZip EXCEPT !.closed = closeOk]
    /\ zpc' = "idle"
    /\ zidx' = 0
    /\ UNCHANGED <<tree, served, mgrVars, blobVars, auxVars>>

\* handleZip, main.go lines 433-455: GET /download/<name> serves the file at
\* the path when os.Stat finds it
handleZip ==
    /\ outZip.exists
    /\ served' = outZip
    /\ UNCHANGED <<tree, zpc, zidx, outZip, mgrVars, blobVars, auxVars>>

----------------------------------------------------------------------------
(* Specifications *)

InitMgr ==
    /\ tasks = <<>>
    /\ wpc = "idle"
    /\ wtask = 0
    /\ ctx = "none"
    /\ phase = "none"
    /\ pullErr = "nil"
    /\ staging = <<>>
    /\ reply = NoReply
    /\ lastFinish = NoFinish

InitBlobDir ==
    /\ part = Absent
    /\ final = Absent
    /\ bpc = "idle"
    /\ expectedSize = 0
    /\ start = 0
    /\ offset = 0
    /\ hasher = <<>>
    /\ body = <<>>
    /\ installs = 0
    /\ resp = "none"
    /\ ret = "none"
    /\ had = NoHad

InitZip ==
    /\ zpc = "idle"
    /\ zidx = 0
    /\ outZip = NoFile
    /\ served = NoFile

\* no pull has run on the blobs directory
InitRerun ==
    /\ keep = FALSE
    /\ declared = 0
    /\ pulls = 0

\* no pull is in its blob stage
InitFetch ==
    /\ config = blobItem(0, 1)
    /\ layers = <<>>
    /\ concurrency = 0
    /\ items = <<>>
    /\ rpc = "none"
    /\ nextItem = 0
    /\ sem = 0
    /\ waited = 0
    /\ running = {}
    /\ launches = [d \in Digests |-> 0]
    /\ failures = 0
    /\ events = <<>>

\* no session: the defaults of the session variables
InitSess ==
    /\ front = "queue"
    /\ job = downloadTask(stateQueued, "Queued", FALSE, FALSE)
    /\ globalCancel = FALSE
    /\ pauseRequested = FALSE
    /\ currentSessionDir = FALSE
    /\ sctx = "none"
    /\ spos = "none"
    /\ sret = "nil"
    /\ stagingDir = FALSE
    /\ sessionJson = NoMeta
    /\ wrote = FALSE
    /\ accepted = NoStop
    /\ listing = "none"

\* no httpReqWithRetry call
InitRetry ==
    /\ retries = 0
    /\ url = {}
    /\ attempt = 0
    /\ requests = 0
    /\ rtpos = "none"
    /\ rctx = "live"
    /\ lastDo = NoDo
    /\ rtret = NoDo

\* no manifest resolution
InitIndex ==
    /\ ref = tagRef("latest")
    /\ platform = <<"linux", "arm64">>
    /\ idx = <<>>
    /\ manifestType = ""
    /\ chosenType = ""
    /\ chosen = NoHex
    /\ ipc = "none"
    /\ ierr = "nil"
    /\ fetched = <<>>
    /\ doc = "none"
    /\ manifestName = [scheme |-> "", rest |-> ""]

\* no progress tracker
InitProgress ==
    /\ total = 0
    /\ done = 0
    /\ adding = [g \in Goroutines |-> NotAdding]
    /\ calls = 0
    /\ counted = 0

\* no sanitizer call
InitSanitize ==
    /\ modelArg = <<>>
    /\ sanitized = <<>>
    /\ sanitizeCalled = FALSE

\* NewDownloadManager
InitDm ==
    /\ dmDownloads = <<>>
    /\ dmQueue = <<>>
    /\ dmRunning = <<>>
    /\ dmMaxConcurrent = 1
    /\ dmWorkers = EmptyBag
    /\ dmPending = 0
    /\ dmCalls = 0
    /\ dmShut = "none"

InitWriters ==
    /\ entry = "web"
    /\ pullers = [g \in PullerSlots |-> Free]
    /\ cancelSlot = 0
    /\ stagings = {}
    /\ qTasks = <<>>
    /\ qWorker = 0

InitTally ==
    /\ tItems = <<>>
    /\ tWorkers = <<>>
    /\ tPc = "init"

InitCategorize ==
    /\ outputDir = <<>>
    /\ metas = <<>>
    /\ catRunning = <<>>
    /\ catPaused = <<>>
    /\ catErrored = <<>>
    /\ catPc = "start"

InitArch ==
    /\ goarch = amd64
    /\ defaultPlatform = <<>>

InitLate == InitWriters /\ InitTally /\ InitCategorize /\ InitArch

InitMore == InitRetry /\ InitIndex /\ InitProgress /\ InitSanitize /\ InitDm /\ InitLate

InitAux == InitRerun /\ InitFetch /\ InitSess /\ InitMore

Init == InitMgr /\ InitBlobDir /\ blob = <<>> /\ InitZip /\ tree = <<>> /\ InitAux

Next ==
    \/ Enqueue
    \/ handleQueueAction
    \/ runQueuePick
    \/ runQueueStart
    \/ runQueueFinish
    \/ runAuth
    \/ runManifest
    \/ runStage
    \/ runFetch
    \/ runZip
    \/ runCleanup

Spec == Init /\ [][Next]_vars

InitBlob ==
    /\ InitMgr /\ InitBlobDir /\ blob \in SeqsUpTo(MaxBlob) /\ InitZip /\ tree = <<>>
    /\ InitAux

NextBlob ==
    \/ downloadBlobEnter
    \/ downloadBlobResponse
    \/ downloadBlobCopy
    \/ downloadBlobCopyFail
    \/ downloadBlobFinalize

SpecBlob == InitBlob /\ [][NextBlob]_vars

InitPulls ==
    /\ InitMgr /\ InitBlobDir /\ blob \in SeqsUpTo(MaxBlob) /\ InitZip /\ tree = <<>>
    /\ keep \in BOOLEAN
    /\ declared \in 0..MaxSize
    /\ pulls = 0
    /\ InitFetch
    /\ InitSess /\ InitMore

NextPulls ==
    \/ pullFetchBlob
    \/ downloadBlobResponse
    \/ downloadBlobCopy
    \/ downloadBlobCopyFail
    \/ downloadBlobFinalize
    \/ pullSuccess
    \/ pullFailure

SpecPulls == InitPulls /\ [][NextPulls]_vars

\* the manifests: a config (perhaps without digest) and up to MaxLayers layers
Descriptors == {blobItem(d, n) : d \in Digests, n \in Sizes}
LayerLists == UNION {[1..n -> Descriptors] : n \in 0..MaxLayers}

InitManifest ==
    /\ InitMgr /\ InitBlobDir /\ blob = <<>> /\ InitZip /\ tree = <<>>
    /\ keep \in BOOLEAN /\ declared = 0 /\ pulls = 0
    /\ InitSess /\ InitMore
    /\ config \in Descriptors \cup {blobItem(0, n) : n \in Sizes}
    /\ layers \in LayerLists
    /\ concurrency \in 0..MaxConcurrency
    /\ items = <<>>
    /\ rpc = "manifest"
    /\ nextItem = 0
    /\ sem = 0
    /\ waited = 0
    /\ running = {}
    /\ launches = [d \in Digests |-> 0]
    /\ failures = 0
    /\ events = <<>>

NextFetch ==
    \/ runWriteManifest
    \/ runDispatch
    \/ goroutineReturn
    \/ runDispatched
    \/ runWait
    \/ runAfterWait
    \/ runZipped

SpecFetch == InitManifest /\ [][NextFetch]_vars

\* the trees: one to MaxEntries entries, each a directory or a file
Trees == UNION {[1..n -> {"dir", "file"}] : n \in 1..MaxEntries}

InitTree ==
    /\ InitMgr /\ InitBlobDir /\ blob = <<>> /\ InitZip /\ tree \in Trees
    /\ InitAux

NextZip ==
    \/ zipDirCreate
    \/ zipDirEntry
    \/ zipDirReturn
    \/ handleZip

SpecZip == InitTree /\ [][NextZip]_vars

\* a staging directory as a session may find it: absent, or left by an
\* earlier pull with a session.json in any state, unreadable included
SessionFiles == {NoMeta, Malformed} \cup
                {sessionMeta(st, st) : st \in {"downloading", "paused", "error"}}

InitSession ==
    /\ InitMgr /\ InitBlobDir /\ blob = <<>> /\ InitZip /\ tree = <<>>
    /\ InitRerun /\ InitFetch /\ InitMore
    /\ front \in {"queue", "web"}
    /\ job = downloadTask(stateQueued, "Queued", FALSE, FALSE)
    /\ globalCancel = FALSE
    /\ pauseRequested = FALSE
    /\ currentSessionDir = FALSE
    /\ sctx = "none"
    /\ spos = "none"
    /\ sret = "nil"
    /\ sessionJson \in SessionFiles
    /\ stagingDir \in IF sessionJson = NoMeta THEN BOOLEAN ELSE {TRUE}
    /\ wrote = FALSE
    /\ accepted = NoStop
    /\ listing = "none"

NextSession ==
    \/ sessRunQueueStart
    \/ sessPerformAction
    \/ sessRunQueueFinish
    \/ handleDownload
    \/ handleResume
    \/ handlePause
    \/ handleCancel
    \/ goroutineFinish
    \/ sessRunRequests
    \/ sessRunLoad
    \/ sessRunSave
    \/ sessRunFetch
    \/ sessRunCopy
    \/ sessRunZip
    \/ discoverPartialSessions

SpecSession == InitSession /\ [][NextSession]_vars

\* a call of httpReqWithRetry with any retries argument and URL, under a
\* context that is live or already cancelled
InitCall ==
    /\ InitMgr /\ InitBlobDir /\ blob = <<>> /\ InitZip /\ tree = <<>>
    /\ InitRerun /\ InitFetch /\ InitSess /\ InitIndex /\ InitProgress
    /\ InitSanitize /\ InitDm /\ InitLate
    /\ retries \in -1..MaxRetries
    /\ url \in Urls
    /\ attempt = 0
    /\ requests = 0
    /\ rtpos = "loop"
    /\ rctx \in {"live", "canceled"}
    /\ lastDo = NoDo
    /\ rtret = NoDo

NextRetry ==
    \/ httpReqWithRetryAttempt
    \/ backoffDone
    \/ cancelRequestContext

SpecRetry == InitCall /\ [][NextRetry]_vars

\* the entries an index may hold, the indexes, the platforms and references
IndexEntries == {[OS |-> o, Architecture |-> a, Digest |-> d] :
                    o \in {"Linux", "windows"}, a \in {"arm64", "ARM64", "amd64"},
                    d \in Hexes}
Indexes == UNION {[1..n -> IndexEntries] : n \in 0..MaxIndex}
Platforms == {<<"linux", "arm64">>, <<"amd64">>}
References == {tagRef("latest")} \cup {digestRef(h) : h \in {<<1>>}}

InitResolve ==
    /\ InitMgr /\ InitBlobDir /\ blob = <<>> /\ InitZip /\ tree = <<>>
    /\ InitRerun /\ InitFetch /\ InitSess /\ InitRetry /\ InitProgress
    /\ InitSanitize /\ InitDm /\ InitLate
    /\ ref \in References
    /\ platform \in Platforms
    /\ idx \in Indexes
    /\ manifestType = ""
    /\ chosenType = ""
    /\ chosen = NoHex
    /\ ipc = "start"
    /\ ierr = "nil"
    /\ fetched = <<>>
    /\ doc = "none"
    /\ manifestName = [scheme |-> "", rest |-> ""]

NextResolve ==
    \/ runGetManifest
    \/ runGetChosen
    \/ runStoreManifest

SpecResolve == InitResolve /\ [][NextResolve]_vars

\* newProgress(total) with a positive total, shared by the goroutines
InitTracker ==
    /\ InitMgr /\ InitBlobDir /\ blob = <<>> /\ InitZip /\ tree = <<>>
    /\ InitRerun /\ InitFetch /\ InitSess /\ InitRetry /\ InitIndex
    /\ InitSanitize /\ InitDm /\ InitLate
    /\ total \in 1..MaxTotal
    /\ done = 0
    /\ adding = [g \in Goroutines |-> NotAdding]
    /\ calls = 0
    /\ counted = 0

NextProgress ==
    \/ progressAdd
    \/ progressAddClamp
    \/ progressSetDone

SpecProgress == InitTracker /\ [][NextProgress]_vars

\* the sanitizer applied to any name of up to MaxName characters
InitName ==
    /\ InitMgr /\ InitBlobDir /\ blob = <<>> /\ InitZip /\ tree = <<>>
    /\ InitRerun /\ InitFetch /\ InitSess /\ InitRetry /\ InitIndex /\ InitProgress
    /\ InitDm /\ InitLate
    /\ modelArg \in Names
    /\ sanitized = <<>>
    /\ sanitizeCalled = FALSE

NextSanitize == sanitizeCall

SpecSanitize == InitName /\ [][NextSanitize]_vars

\* the generic manager under any calls of its methods
InitGeneric ==
    /\ InitMgr /\ InitBlobDir /\ blob = <<>> /\ InitZip /\ tree = <<>>
    /\ InitRerun /\ InitFetch /\ InitSess /\ InitRetry /\ InitIndex /\ InitProgress
    /\ InitSanitize
    /\ dmDownloads = <<>>
    /\ dmQueue = <<>>
    /\ dmRunning = <<>>
    /\ dmMaxConcurrent \in 1..MaxConcurrency
    /\ dmWorkers = EmptyBag
    /\ dmPending = 0
    /\ dmCalls = 0
    /\ dmShut = "none"
    /\ InitLate

NextGeneric ==
    \/ AddDownload(MaxRetries)
    \/ \E id \in dmIds : RemoveDownload(id)
    \/ \E id \in dmIds : PauseDownload(id)
    \/ \E id \in dmIds : ResumeDownload(id)
    \/ PauseAll
    \/ ResumeAll
    \/ processQueue
    \/ \E g \in BagToSet(dmWorkers) : downloadWorkerStart(g)
    \/ \E g \in BagToSet(dmWorkers), n \in 0..MaxProgress, bad \in BOOLEAN :
          downloadWorkerFinish(g, n, bad)

SpecGeneric == InitGeneric /\ [][NextGeneric]_vars

\* the generic manager until and after Shutdown, no method called after it
NextShutdown ==
    \/ dmShut = "none" /\ AddDownload(MaxRetries)
    \/ dmShut = "none" /\ \E id \in dmIds : PauseDownload(id)
    \/ dmShut = "none" /\ \E id \in dmIds : ResumeDownload(id)
    \/ processQueue
    \/ \E g \in BagToSet(dmWorkers) : downloadWorkerStart(g)
    \/ \E g \in BagToSet(dmWorkers), n \in 0..MaxProgress, bad \in BOOLEAN :
          downloadWorkerFinish(g, n, bad)
    \/ Shutdown
    \/ ShutdownReturn

SpecShutdown == InitGeneric /\ [][NextShutdown]_vars

\* repeated pulls of one blob with their progress tracker
NextAccount ==
    \/ accountFetchBlob
    \/ accountResponse
    \/ accountCopy
    \/ accountCopyFail
    \/ accountFinalize
    \/ pullSuccess
    \/ pullFailure

SpecAccount == InitPulls /\ [][NextAccount]_vars

InitStaging ==
    /\ InitMgr /\ InitBlobDir /\ blob = <<>> /\ InitZip /\ tree = <<>>
    /\ InitRerun /\ InitFetch /\ InitSess /\ InitRetry /\ InitIndex /\ InitProgress
    /\ InitSanitize /\ InitDm
    /\ entry \in {"queue", "web"}
    /\ pullers = [g \in PullerSlots |-> Free]
    /\ cancelSlot = 0
    /\ stagings = {}
    /\ qTasks = <<>>
    /\ qWorker = 0
    /\ InitTally /\ InitCategorize /\ InitArch

NextStaging ==
    \/ \E m \in Models : postDownload(m)
    \/ \E m \in Models : postResume(m)
    \/ postStop
    \/ \E g \in PullerSlots : pullWrite(g)
    \/ \E g \in PullerSlots, ok \in BOOLEAN : sessionReturn(g, ok)
    \/ \E m \in Models : queueEnqueue(m)
    \/ queuePick
    \/ \E i \in 1..MaxEnqueued, a \in {"pause", "resume", "cancel"} : queueAction(i, a)
    \/ \E ok \in BOOLEAN : queueReturn(ok)

SpecStaging == InitStaging /\ [][NextStaging]_vars

\* a blobs directory that holds any .part file, left by earlier attempts, and
\* a registry that serves the blob and declares its length
InitHonest ==
    /\ InitMgr /\ InitZip /\ tree = <<>>
    /\ blob \in SeqsUpTo(MaxBlob) \ {<<>>}
    /\ part \in {Absent} \cup {File(d) : d \in SeqsUpTo(MaxPart)}
    /\ final = Absent
    /\ bpc = "idle"
    /\ expectedSize = 0
    /\ start = 0
    /\ offset = 0
    /\ hasher = <<>>
    /\ body = <<>>
    /\ installs = 0
    /\ resp = "none"
    /\ ret = "none"
    /\ had = NoHad
    /\ keep = TRUE
    /\ declared = Len(blob)
    /\ pulls = 0
    /\ InitFetch
    /\ InitSess /\ InitMore

NextHonest ==
    \/ retryBlob
    \/ rangeHonoured
    \/ downloadBlobCopy
    \/ downloadBlobFinalize

\* every attempt runs to its end and another one follows
SpecHonest == InitHonest /\ [][NextHonest]_vars /\ WF_vars(NextHonest)

\* the items of a manifest whose sizes are the blobs' lengths, on a staging
\* directory that holds final blobs and .part prefixes
TallyItems == [size : 1..MaxBytes, final : BOOLEAN, part : -1..MaxBytes]

InitFetched ==
    /\ InitMgr /\ InitBlobDir /\ blob = <<>> /\ InitZip /\ tree = <<>>
    /\ InitRerun /\ InitFetch /\ InitSess /\ InitRetry /\ InitIndex
    /\ InitSanitize /\ InitDm /\ InitWriters /\ InitCategorize /\ InitArch
    /\ total = 0
    /\ done = 0
    /\ adding = [g \in Goroutines |-> NotAdding]
    /\ calls = 0
    /\ counted = 0
    /\ \E n \in 0..MaxBlobs :
         /\ tItems \in [1..n -> {it \in TallyItems : it.part <= it.size}]
         /\ totalOf(tItems) <= MaxBytes
         /\ tWorkers = [i \in 1..n |-> NewWorker]
    /\ tPc = "init"

NextFetched ==
    \/ tallyBegin
    \/ \E i \in 1..Len(tItems) : tallyStart(i)
    \/ \E i \in 1..Len(tItems), status \in {200, 206, 404} : tallyAnswer(i, status)
    \/ \E i \in 1..Len(tItems) : tallyClamp(i)
    \/ \E i \in 1..Len(tItems) : tallyCopy(i)
    \/ \E i \in 1..Len(tItems) : tallyCopyFail(i)
    \/ \E i \in 1..Len(tItems) : tallyInstall(i)
    \/ tallyWait

SpecFetched == InitFetched /\ [][NextFetched]_vars

InitIndexPage ==
    /\ InitMgr /\ InitBlobDir /\ blob = <<>> /\ InitZip /\ tree = <<>>
    /\ InitRerun /\ InitFetch /\ InitSess /\ InitRetry /\ InitIndex /\ InitProgress
    /\ InitSanitize /\ InitDm /\ InitWriters /\ InitTally /\ InitArch
    /\ outputDir \in UNION {[1..n -> DirEntries] : n \in 0..MaxSessions}
    /\ metas = <<>>
    /\ catRunning = <<>>
    /\ catPaused = <<>>
    /\ catErrored = <<>>
    /\ catPc = "start"

NextIndexPage ==
    \/ DiscoverPartialSessions
    \/ CategorizeSessions

SpecIndexPage == InitIndexPage /\ [][NextIndexPage]_vars

\* the generic manager left to itself after AddDownload, every attempt of
\* every download failing
NextFailing ==
    \/ \E n \in -1..MaxRetries : Len(dmDownloads) < MaxFailing /\ AddDownload(n)
    \/ processQueue
    \/ \E g \in BagToSet(dmWorkers) : downloadWorkerStart(g)
    \/ \E g \in BagToSet(dmWorkers) : downloadWorkerFinish(g, 0, TRUE)

SpecFailing == InitGeneric /\ [][NextFailing]_vars

\* any short architecture name, the two that archFromGo names among them
InitPlatform ==
    /\ InitMgr /\ InitBlobDir /\ blob = <<>> /\ InitZip /\ tree = <<>>
    /\ InitRerun /\ InitFetch /\ InitSess /\ InitRetry /\ InitIndex /\ InitProgress
    /\ InitSanitize /\ InitDm /\ InitWriters /\ InitTally /\ InitCategorize
    /\ goarch \in UNION {[1..n -> ArchRunes] : n \in 0..MaxArch}
    /\ defaultPlatform = <<>>

NextPlatform == setDefaultPlatform

SpecPlatform == InitPlatform /\ [][NextPlatform]_vars

----------------------------------------------------------------------------
(* Claims *)

downloadingTasks == {i \in 1..Len(tasks) : tasks[i].State = stateDownloading}

\* C1: at most one task is in state downloading at any instant, and a task
\* in that state is the one the single worker has picked and not yet
\* finished with, so that no second pull is started beside it.
C1_OneDownloading ==
    /\ Cardinality(downloadingTasks) <= 1
    /\ \A i \in downloadingTasks : wpc # "idle" /\ wtask = i

\* a pull is executing for a downloading task while another task waits
C1_Witness ==
    \E i, j \in 1..Len(tasks) :
        /\ tasks[i].State = stateDownloading
        /\ tasks[j].State = stateQueued
        /\ wpc = "pulling"

\* C2: after the pull the worker changes the task's state only if it is
\* still downloading (to done on success, to error on failure); any other
\* state is left as it is.
C2_OnlyIfDownloading ==
    lastFinish.task # 0 =>
        IF lastFinish.before = stateDownloading
        THEN lastFinish.after = (IF lastFinish.err = "nil" THEN stateDone ELSE stateError)
        ELSE lastFinish.after = lastFinish.before

\* C3: a task found paused or canceled when its pull returns keeps that
\* state, whatever the pull returned.
C3_PausedCanceledKept ==
    (lastFinish.task # 0 /\ lastFinish.before \in {statePaused, stateCanceled}) =>
        /\ lastFinish.after = lastFinish.before
        /\ tasks[lastFinish.task].State = lastFinish.before

\* the pull of a paused task returned success and the worker has finished
C3_Witness ==
    /\ lastFinish.before = statePaused
    /\ lastFinish.err = "nil"

\* C4: whenever pause or cancel is accepted for a downloading task, the
\* context of the pull the worker runs for it is cancelled.
C4_CancelInvoked ==
    [][\A i \in 1..Len(tasks) :
          (tasks[i].State = stateDownloading
           /\ tasks'[i].State \in {statePaused, stateCanceled})
          => ctx' = "canceled"]_vars

\* C5: while a task stays paused, no step deletes its staging directory.
C5_PausedStagingKept ==
    [][\A i \in 1..Len(tasks) :
          (tasks[i].State = statePaused /\ tasks'[i].State = statePaused
           /\ staging[i])
          => staging'[i]]_vars

\* the states an action is legal from, and the state it sets
legalFrom(action) ==
    CASE action = "pause"  -> {stateDownloading, stateQueued}
      [] action = "resume" -> {statePaused, stateError, stateCanceled}
      [] action = "cancel" -> {stateDownloading, stateQueued, statePaused}
      [] OTHER -> {}

stateSetBy(action) ==
    CASE action = "pause"  -> statePaused
      [] action = "resume" -> stateQueued
      [] action = "cancel" -> stateCanceled
      [] OTHER -> "none"

\* C6: an action is accepted exactly from its legal states, then sets the
\* state of its table (resume also clears the progress) and touches no
\* other task; an unknown id, an unknown action or any other state reports
\* failure and leaves every task unchanged. Stated of every step that
\* is performAction(id, action): such a step agrees with the table.
C6_ActionTable ==
    [][reply' # NoReply =>
        \A id \in RequestIds, action \in RequestActions :
          \/ IF id \in 1..Len(tasks) /\ tasks[id].State \in legalFrom(action)
             THEN /\ reply' = "ok"
                  /\ tasks'[id].State = stateSetBy(action)
                  /\ (action = "resume" => ~tasks'[id].Progress)
                  /\ Len(tasks') = Len(tasks)
                  /\ \A j \in 1..Len(tasks) : j # id => tasks'[j] = tasks[j]
             ELSE /\ reply' = "failed"
                  /\ tasks' = tasks
          \/ ~(performAction(id, action) /\ performActionFrame)]_vars

\* a request has just been refused while every task is done
C6_Witness ==
    /\ reply = "failed"
    /\ Len(tasks) >= 1
    /\ \A i \in 1..Len(tasks) : tasks[i].State = stateDone

\* C7: a queued task leaves that state only by being picked by the worker
\* (downloading) or by the user pausing or cancelling it; nothing else takes
\* it out of the queue, so that it is eventually picked.
C7_QueuedUntilPicked ==
    [][\A i \in 1..Len(tasks) :
          tasks[i].State = stateQueued =>
              tasks'[i].State \in {stateQueued, stateDownloading,
                                   statePaused, stateCanceled}]_vars

\* C8: every final blob file has the content whose SHA-256 is the digest,
\* in every reachable state of the blobs directory.
C8_DigestIntegrity == final.exists => sha256(final.data) = hexhash

\* C9: the file at the output path is absent or the complete archive, at
\* every instant, and so is whatever the control plane serves.
C9_ArchiveAtomic ==
    /\ outZip.exists => outZip = fullArchive
    /\ served.exists => served = fullArchive

\* C10: a final blob file is created once and never replaced.
C10_InstalledOnce == installs <= 1

C12_ResumeBound ==
    (bpc = "copy" /\ resp # "other" /\ expectedSize >= 1
     /\ expectedSize = Len(blob)) =>
        offset - start <= expectedSize - had.disk

\* C12 as amended: when the ranged request is answered by 206 with the
\* requested range, the body bytes of the call add up to the size of the blob
\* minus the bytes of its .part on disk (clamped to the declared size) when
\* the call began.
C12_ResumeBoundOn206 ==
    (bpc = "copy" /\ resp = "range") =>
        (offset - start) + Len(body) <= Len(blob) - had.part

\* a resumed call has copied the rest of the blob after a 206
C12_Witness ==
    /\ bpc = "copy" /\ resp = "range"
    /\ had.part >= 1 /\ offset - start >= 1 /\ body = <<>>

C14_FailureKeepsPart ==
    [][(bpc # "idle" /\ bpc' = "idle" /\ ret' = "err") =>
          /\ final' = final
          /\ installs' = installs
          /\ part' = part]_vars

\* a call has failed after writing bytes of the blob to the .part
C14_Witness ==
    /\ ret = "err"
    /\ part.exists /\ Len(part.data) >= 1
    /\ ~final.exists

\* C15: once the pull of a session has stopped after a pause that was accepted
\* while the pull had already written session.json, the task is paused and
\* session.json records the state "paused", until the session is resumed.
C15_PausedRecorded ==
    (spos = "none" /\ accepted.action = "pause" /\ accepted.wrote) =>
        /\ sessionJson.kind = "meta" /\ sessionJson.State = "paused"
        /\ front = "queue" => job.State = statePaused

\* C16: when a pull that has written session.json returns an error that is
\* not a cancellation, the bookkeeping that follows leaves session.json with
\* the state "error" and the error's message, and the task in state error.
C16_ErrorRecorded ==
    [][(spos = "returned" /\ spos' = "none" /\ sret = "other" /\ wrote) =>
           /\ sessionJson' = sessionMeta("error", sret)
           /\ front = "queue" => job'.State = stateError]_vars

\* C17: when a pull returns because its context was cancelled by a pause or a
\* cancel, the bookkeeping that follows leaves session.json as it is, whatever
\* request or body read of the pull observed the cancellation.
C17_CancellationKeepsSession ==
    [][(spos = "returned" /\ spos' = "none" /\ isCanceled(sret)
            /\ accepted.action # "none") =>
           sessionJson' = sessionJson]_vars

\* C18: a pull that finds session.json missing or malformed goes on to write
\* it afresh, and discovery skips the directory.
C18_UnreadableIsNew ==
    [][(spos = "load" /\ spos' # "load" /\ loadSessionMeta(sessionJson) # "nil") =>
           spos' = "save"]_vars

\* C19: a step deletes a staging directory only as the last step of a pull
\* that has written the archive, with keepStaging false, and whose task has
\* been neither paused nor cancelled; no other step deletes one.
C19_StagingDeletedOnSuccess ==
    [][\A i \in 1..Len(tasks) :
          (staging[i] /\ ~staging'[i]) =>
              /\ wtask = i /\ phase = "cleanup" /\ ~keepStaging
              /\ tasks[i].State = stateDownloading]_vars

\* C21: when a blob goroutine of a pull has failed, the pull ends in failure
\* once the wait is over, with no goroutine still running, no archive started
\* and nothing removed; a goroutine never finds errCh full, and the wait loop
\* is never stuck while no goroutine runs.
C21_WorkerFailureFailsPull ==
    /\ (failures > 0 /\ rpc \notin {"dispatch", "wait"}) =>
           /\ rpc = "failed"
           /\ running = {}
           /\ \A m \in 1..Len(events) : events[m] \notin {"zip", "zipped", "removed"}
    /\ running # {} => failures < errChCap(items)
    /\ (rpc = "wait" /\ waited < waitTokens(semCap) /\ sem >= semCap) => running # {}

\* a pull of two blobs has failed after both goroutines returned, one of
\* them at least with an error
C21_Witness ==
    /\ rpc = "failed" /\ failures >= 1
    /\ Len(items) >= 2
    /\ Cardinality({m \in 1..Len(events) : events[m] = "fetched"}) = Len(items)

\* the errors the transport is to retry: timeouts, resets, temporary errors
transientError(e) == e \in {"timeout", "connection reset", "temporary"}

\* C22: a call issues at least one and at most max(1, retries+1) requests; it
\* goes on to a further request only after a retryable status (408, 429,
\* 5xx) or a transient error and while attempts remain; after any other
\* status or error it has returned that status or error.
C22_BoundedRetries ==
    /\ requests <= max(1, retries + 1)
    /\ rtpos = "returned" => requests >= 1
    /\ rtpos = "backoff" =>
          /\ requests < max(1, retries + 1)
          /\ \/ lastDo.kind = "status" /\ (lastDo.code \in {408, 429} \cup 500..599)
             \/ lastDo.kind = "error" /\ transientError(lastDo.err)
    /\ (\/ lastDo.kind = "status" /\ lastDo.code \notin ({408, 429} \cup 500..599)
        \/ lastDo.kind = "error" /\ ~transientError(lastDo.err)) =>
          rtpos = "returned" /\ rtret = lastDo

\* C23: once a request has failed with the cancellation error, the call has
\* returned that error: no backoff and no further request follow, whatever
\* the request URL.
C23_CancellationAborts ==
    (lastDo.kind = "error" /\ lastDo.err = "context canceled") =>
        rtpos = "returned" /\ rtret = lastDo

\* the entries of the index whose os is "linux" and whose architecture is the
\* last segment of the platform, case ignored
matchingEntries ==
    {i \in 1..Len(idx) : /\ toLower(idx[i].OS) = "linux"
                         /\ toLower(idx[i].Architecture) =
                              toLower(platform[Len(platform)])}

\* C24: the digest selected from an index is one of the matching entries'
\* digests and no matching entry has a smaller one, so it is a function of
\* the set of entries; a second manifest is requested only for that digest;
\* with an index and no matching entry the pull has failed after the one
\* request and stored nothing.
C24_SmallestMatchingDigest ==
    /\ chosen # NoHex =>
          /\ \E i \in matchingEntries : idx[i].Digest = chosen
          /\ \A i \in matchingEntries : ~stringLess(idx[i].Digest, chosen)
    /\ Len(fetched) >= 2 =>
          /\ matchingEntries # {}
          /\ fetched[2] = [scheme |-> "sha256:", rest |-> chosen]
    /\ (manifestType \in {mtOCIIndex, mtDockerIndex} /\ matchingEntries = {}) =>
          /\ ipc = "failed"
          /\ Len(fetched) = 1
          /\ manifestName.rest = ""

\* two entries match, the first written with another case, and the second,
\* smaller digest is the one about to be fetched
C24_Witness ==
    /\ ipc = "fetchChosen"
    /\ Len(idx) = 2 /\ matchingEntries = {1, 2}
    /\ idx[1].OS = "Linux" /\ idx[1].Architecture # idx[2].Architecture
    /\ stringLess(idx[2].Digest, idx[1].Digest)
    /\ chosen = idx[2].Digest

\* C25: after an index response and the fetch of the selected digest, the
\* pull is rejected for the media type only if the second response's media
\* type is not a manifest type.
C25_IndexThenManifest ==
    (ipc = "failed" /\ ierr = "mediatype") =>
        chosenType \notin {mtOCIManifest, mtDockerManifest}

\* C26: the manifest file is named sha256-<hex> of the manifest stored when
\* the pull used a digest, given in the reference or selected from an index,
\* and by the raw tag otherwise.
C26_ManifestFileName ==
    ipc = "stored" =>
        manifestName =
            IF doc = "chosen" THEN [scheme |-> "sha256-", rest |-> chosen]
            ELSE IF ref.ReferenceTag = ""
                 THEN [scheme |-> "sha256-", rest |-> ref.Reference.rest]
                 ELSE [scheme |-> "", rest |-> ref.ReferenceTag]

\* C27: for a tracker with total > 0 and any interleaving of the goroutines'
\* calls, whenever no Add is between its fetch-add and its clamp the done
\* counter is within [0, total] and no call has been lost: it is the value
\* the calls give when each is applied, clamped, at its fetch-add or store.
C27_NoAddLost ==
    (total > 0 /\ \A g \in Goroutines : ~adding[g].in) =>
        (done >= 0 /\ done <= total /\ done = counted)

\* C28: the sanitizer's result is non-empty, has no upper-case letter and none
\* of '/', ':', '@', backslash and blank; it is "model" for an empty or
\* white-space-only argument and for an argument of which nothing but
\* replaced characters, dashes and surrounding white space is left.
C28_SanitizedName ==
    sanitizeCalled =>
        /\ Len(sanitized) >= 1
        /\ \A i \in 1..Len(sanitized) :
               sanitized[i] \notin {"A", "/", ":", "@", "\\", " "}
        /\ (\A i \in 1..Len(modelArg) : modelArg[i] \in WhiteSpace) =>
               sanitized = literalModel
        /\ (\E lo, hi \in 0..(Len(modelArg) + 1) :
               \A i \in 1..Len(modelArg) :
                  IF i <= lo \/ i >= hi THEN modelArg[i] \in WhiteSpace
                  ELSE modelArg[i] \in {"/", ":", "@", "\\", " ", "-"}) =>
               sanitized = literalModel

\* a name of separators only was given and "model" came back, and so did a
\* name in upper case with a separator inside
C28_Witness ==
    /\ sanitizeCalled
    /\ \/ /\ Len(modelArg) = MaxName
          /\ \A i \in 1..Len(modelArg) : modelArg[i] \in {"/", ":", "@"}
          /\ sanitized = literalModel
       \/ /\ modelArg = <<"A", "/", "A">>
          /\ sanitized = <<"a", "-", "a">>

\* the downloads of the manager that a worker is executing
executedDownloads ==
    {id \in dmIds : /\ dmDownloads[id].inMap
                    /\ \E g \in BagToSet(dmWorkers) :
                          g.id = id /\ g.pos = "executing"}

\* the queued downloads of a queue, in queue order, each once
RECURSIVE queuedOrder(_, _)
queuedOrder(q, seen) ==
    IF q = <<>> THEN <<>>
    ELSE IF /\ Head(q) \notin seen
            /\ dmDownloads[Head(q)].inMap
            /\ dmDownloads[Head(q)].Status = StatusQueued
         THEN <<Head(q)>> \o queuedOrder(Tail(q), seen \cup {Head(q)})
         ELSE queuedOrder(Tail(q), seen)

\* C29: after any sequence of manager calls and worker completions no more
\* than maxConcurrent downloads are being executed by a worker and no more
\* than maxConcurrent have status active, and the downloads a run of
\* processQueue starts are the first queued ones of the queue, in its order.
C29_AtMostMaxConcurrent ==
    [][/\ Cardinality(executedDownloads') <= dmMaxConcurrent
       /\ Cardinality({id \in 1..Len(dmDownloads') :
              /\ dmDownloads'[id].inMap
              /\ dmDownloads'[id].Status = StatusActive}) <= dmMaxConcurrent
       /\ Len(dmRunning') > Len(dmRunning) =>
              LET k == Len(dmRunning') - Len(dmRunning)
                  o == queuedOrder(dmQueue, {})
              IN /\ k <= Len(o)
                 /\ \A i \in 1..k : dmRunning'[Len(dmRunning) + i] = o[i]
      ]_vars

\* C30: a download with status paused keeps that status and its progress
\* through every step of a worker (a worker's start, a worker's end and a run
\* of processQueue); only a resume or a removal changes it.
C30_PausedStaysPaused ==
    [][\A id \in dmIds :
          /\ dmDownloads[id].inMap
          /\ dmDownloads[id].Status = StatusPaused
          /\ \/ BagCardinality(dmWorkers') # BagCardinality(dmWorkers)
             \/ \E g \in BagToSet(dmWorkers) :
                   g.pos = "start" /\ CopiesIn(g, dmWorkers') < CopiesIn(g, dmWorkers)
          => /\ dmDownloads'[id].Status = StatusPaused
             /\ dmDownloads'[id].Progress = dmDownloads[id].Progress
      ]_vars

\* C31: once Shutdown has returned no download worker is running and none is
\* started, and every download context is canceled.
C31_ShutdownGraceful ==
    dmShut = "returned" =>
        /\ dmWorkers = EmptyBag
        /\ \A id \in dmIds : dmDownloads[id].ctxCanceled

\* the digests of the manifest's descriptors that name a blob
wantedDigests ==
    {enumerate(config, layers)[i].digest : i \in 1..Len(enumerate(config, layers))} \ {0}

\* C32: at most max(1, concurrency) blob goroutines are in flight; no digest
\* is given to a goroutine twice, and once the dispatch loop is over every
\* digest of the manifest has been given to one exactly once; neither the
\* dispatch loop nor the wait loop is blocked while no goroutine runs, and a
\* goroutine always finds room in errCh, for any number of items.
C32_BoundedFetch ==
    /\ Cardinality(running) <= max(1, concurrency)
    /\ \A d \in Digests : launches[d] <= 1
    /\ (\E m \in 1..Len(events) : events[m] = "manifest") /\ rpc # "dispatch" =>
           \A d \in Digests : launches[d] = (IF d \in wantedDigests THEN 1 ELSE 0)
    /\ (rpc = "dispatch" /\ nextItem <= Len(items) /\ sem >= max(1, concurrency)) =>
           running # {}
    /\ (rpc = "wait" /\ waited < max(1, concurrency) /\ sem >= max(1, concurrency)) =>
           running # {}
    /\ Cardinality(running) + failures <= Len(items)
    /\ (rpc = "wait" /\ running = {}) => sem = waited

\* the wait is over after two blobs were fetched one at a time, and after a
\* manifest without any blob
C32_Witness ==
    /\ rpc \in {"zip", "failed"}
    /\ \E m \in 1..Len(events) : events[m] = "manifest"
    /\ waited = max(1, concurrency)
    /\ \/ Len(items) = 2 /\ concurrency = 0
       \/ Len(items) = 0

\* the progress a pull of the whole blob ends with when it finds no .part
withoutPart ==
    clamped(setDone(total, existingBytesForBlob(final, Absent, expectedSize))
            + Len(blob))

\* C33: when a ranged request is answered with 200, the .part is truncated,
\* the hasher is empty, the progress goes down by exactly start and the body
\* is written from offset 0; and when the call then succeeds on the whole
\* blob, the final file is the blob and the progress is what it would be had
\* there been no .part.
C33_RangeDowngrade ==
    [][/\ (bpc = "request" /\ start > 0 /\ bpc' = "copy" /\ start' = 0) =>
             /\ part' = File(<<>>)
             /\ hasher' = <<>>
             /\ offset' = 0
             /\ done' = done - start
       /\ (bpc = "copy" /\ resp = "downgrade" /\ bpc' = "idle" /\ ret' = "nil") =>
             /\ final' = File(blob)
             /\ done' = withoutPart
      ]_vars

\* the goroutines that write the .part files of the staging directory d
writersOf(d) == {g \in PullerSlots : pullers[g].pos = "writing" /\ pullers[g].dir = d}

\* the queue manager alone never has two pulls in progress
queueOnePull ==
    entry = "queue" => Cardinality({g \in PullerSlots : pullers[g].pos # "free"}) <= 1

\* C34: at any instant at most one goroutine writes a given
\* sha256-<hex>.part: no two pulls run at once on the same staging directory,
\* whatever the interleaving of start, enqueue, resume, pause and cancel
\* requests, two requests for the same model included.
C34_OneWriterPerPart ==
    \A g \in PullerSlots : pullers[g].pos = "writing" =>
        Cardinality(writersOf(pullers[g].dir)) <= 1

\* C35: a .part retained after a digest mismatch, or any .part whose bytes
\* are not a prefix of the blob or that is as long as the expected size or
\* longer, never blocks the blob forever: repeated pulls against a correct
\* registry that honours Range eventually install the final blob.
C35_EventuallyInstalled == <>(final = File(blob))

\* C36: when the parallel fetch has succeeded and every blob's declared size
\* is positive and equal to its length, progress.done = progress.total at
\* the end of the fetch, for any final blobs and .part prefixes in the
\* staging directory, any interleaving of the goroutines and any mix of 206
\* and 200 answers.
\* No clamp of Add ever changes the counter (each byte is counted once, by the
\* pre-accounting or by a goroutine), and the count ends at the total.
C36_DoneIsTotal ==
    [][ /\ tPc' = "fetched" => done' = total'
        /\ \A i \in 1..Len(tWorkers) :
              (tWorkers[i].pc \in {"undo", "added"} /\ tWorkers'[i].pc = "copy")
                  => done' = done
      ]_vars

C36_Witness ==
    /\ tPc = "fetched"
    /\ done = total
    /\ \E i, j \in 1..Len(tItems) :
         /\ tWorkers[i].got = "downgrade"
         /\ tWorkers[j].got = "range"

\* how many views of the three results show the session of directory d
viewsShowing(d) ==
    Len(SelectSeq(catRunning \o catPaused \o catErrored, LAMBDA v : v.dir = d))

\* C37: the categorization is a partition: every discovered session is in
\* exactly one of running, paused and errored, for any set of sessions,
\* several sessions in state downloading included.
C37_Partition ==
    catPc = "categorized" =>
        \A i \in 1..Len(metas) : viewsShowing(metas[i].dir) = 1

\* the downloadWorker goroutines of download id that have not returned
workersIn(wk, id) == copiesSum(wk, {g \in BagToSet(wk) : g.id = id})
workersOf(id) == workersIn(dmWorkers, id)

\* C38: at most one worker goroutine executes a given download at any time:
\* an id never occurs twice in the running list, and no worker is started for
\* a download whose previous worker has not returned.
C38_OneWorkerPerDownload ==
    \A id \in dmIds :
        /\ Cardinality({k \in 1..Len(dmRunning) : dmRunning[k] = id}) <= 1
        /\ workersOf(id) <= 1

\* C39: without user actions a download whose every attempt fails is
\* attempted at most max(1, MaxRetries) times: a worker is started for it
\* only while Retries < max(1, MaxRetries), every failed attempt adds one to
\* Retries and re-queues the download only if Retries < MaxRetries, else it
\* records status error and the error text; a download in status error is
\* never queued or started again, and Retries never decreases.
C39_FailingTerminates ==
    [][\A id \in dmIds :
         LET d == dmDownloads[id]
             e == dmDownloads'[id]
             before == workersOf(id)
             after == workersIn(dmWorkers', id)
         IN  /\ e.Retries >= d.Retries
             /\ after > before => d.Retries < max(1, d.MaxRetries)
             /\ after < before =>
                  /\ e.Retries = d.Retries + 1
                  /\ IF e.Retries < e.MaxRetries
                     THEN e.Status = StatusQueued /\ containsString(dmQueue', id)
                     ELSE e.Status = StatusError /\ e.Error # ""
             /\ d.Status = StatusError =>
                  /\ e.Status = StatusError
                  /\ ~containsString(dmQueue', id)
                  /\ after = 0
      ]_vars

C39_Witness ==
    \E id \in dmIds :
        /\ dmDownloads[id].Status = StatusError
        /\ dmDownloads[id].Error # ""
        /\ dmDownloads[id].Retries = dmDownloads[id].MaxRetries
        /\ dmDownloads[id].Retries >= 2

\* C40: archFromGo returns its argument unchanged for every architecture
\* string (amd64, arm64 and any other), so the default platform is always
\* "linux/" followed by the host architecture.
C40_ArchUnchanged ==
    /\ archFromGo(goarch) = goarch
    /\ defaultPlatform # <<>> => defaultPlatform = linuxSlash(goarch)

C40_Witness ==
    /\ goarch = amd64
    /\ defaultPlatform = <<"l", "i", "n", "u", "x", "/", "a", "m", "d", "6", "4">>

eventsBefore(i, e) == {m \in 1..(i - 1) : events[m] = e}

\* C20: in a pull the manifest file is written before any blob fetch starts,
\* every started fetch has finished before packaging starts and none starts
\* after it, and packaging has finished before the staging directory is
\* removed.
C20_EventOrder ==
    \A i \in 1..Len(events) :
        /\ events[i] = "fetch" => eventsBefore(i, "manifest") # {}
        /\ events[i] \in {"fetch", "fetched"} => eventsBefore(i, "zip") = {}
        /\ events[i] = "zip" =>
              /\ Cardinality(eventsBefore(i, "fetch")) = Len(items)
              /\ Cardinality(eventsBefore(i, "fetched")) = Len(items)
        /\ events[i] = "removed" => eventsBefore(i, "zipped") # {}

\* a pull whose two fetches ran side by side has removed its staging directory
C20_Witness ==
    /\ rpc = "done"
    /\ Len(events) >= 7
    /\ events[2] = "fetch" /\ events[3] = "fetch"
    /\ events[Len(events)] = "removed"

====
